---- MODULE Spec2Model ----
(***************************************************************************)
(* Hardware breakpoint manager of LinuxTarget (src/target/linux.rs).       *)
(*                                                                         *)
(* A 64-bit register value (DR6, DR7, a bit mask) is represented by the    *)
(* set of the positions of its 1 bits, a subset of 0..63: `a & b` is the   *)
(* intersection, `a | b` the union, `!a` the complement in 0..63 and       *)
(* `v << k` moves every position up by k and drops what leaves the word.   *)
(* The address registers DR0..DR3 hold small integers.                     *)
(*                                                                         *)
(* Every public operation is one atomic step: the Target is owned          *)
(* exclusively (&mut self) and the debuggee is stopped while the tracer    *)
(* issues requests. A tracer request may fail; `f` names the ordinal of    *)
(* the request, within one operation, that fails (0: none does).           *)
(***************************************************************************)
EXTENDS Integers, Sequences, FiniteSets, TLC

(* ------------------------------ bounds -------------------------------- *)

\* Tracer requests that fail during one run of a scenario with faults.
MaxFail == 1
\* Status bits pending in DR6 at once.
MaxPending == 2
\* Indices passed to clear_hardware_breakpoint are 0..MaxIndex.
MaxIndex == 4

(* -------------------------- program constants ------------------------- *)

SUPPORTED_HARDWARE_BREAKPOINTS == 4

WORD_BITS == 64

Slots == 0 .. (SUPPORTED_HARDWARE_BREAKPOINTS - 1)

Word == 0 .. (WORD_BITS - 1)

(* ------------------------------ u64 bits ------------------------------ *)

Shl(v, k) == {b + k : b \in v} \cap Word

BitAnd(a, b) == a \cap b

BitOr(a, b) == a \cup b

BitNot(a) == Word \ a

(* ------------------------- HardwareBreakpoint ------------------------- *)

None == <<>>

Some(x) == <<x>>

\* R/W field: 00 execute, 01 write, 11 read/write.
TypeCode(typ) ==
    CASE typ = "Execute" -> {}
      [] typ = "Write" -> {0}
      [] typ = "ReadWrite" -> {0, 1}

\* LEN field: 00 1B, 01 2B, 10 8B, 11 4B.
SizeCode(size) ==
    CASE size = "B1" -> {}
      [] size = "B2" -> {0}
      [] size = "B8" -> {1}
      [] size = "B4" -> {0, 1}

rw_bits(breakpoint, index) == Shl(TypeCode(breakpoint.typ), 16 + 4 * index)

size_bits(breakpoint, index) == Shl(SizeCode(breakpoint.size), 18 + 4 * index)

bit_mask(index) == {2 * index} \cup ((4 * index + 16) .. (4 * index + 19))

Breakpoint(addr, typ, size) == [addr |-> addr, typ |-> typ, size |-> size]

\* A run: the breakpoints the caller passes to set_hardware_breakpoint, the
\* value DR7 holds when the Target is created (nothing, or bits an earlier
\* tracer or the processor left there: G0, bit 1, the reserved bit 10 and
\* the low LEN0 bit, 18, with no enable bit) and the number of tracer
\* requests that may fail. Every type and every size occurs.
Scenarios ==
    { [breakpoints |-> {Breakpoint(1, "Execute", "B1"), Breakpoint(2, "Write", "B2")},
       dr7         |-> {},
       faults      |-> 0],
      [breakpoints |-> {Breakpoint(1, "ReadWrite", "B4"), Breakpoint(2, "Write", "B8")},
       dr7         |-> {1, 10, 18},
       faults      |-> 0],
      [breakpoints |-> {Breakpoint(3, "ReadWrite", "B2")},
       dr7         |-> {10},
       faults      |-> MaxFail] }

(* --------------------------- tracer requests -------------------------- *)

\* A machine: the Target's slot table, the debuggee's debug registers and
\* the tracer requests issued so far by the running operation.
Machine(hb, dr, dr6, dr7) ==
    [hardware_breakpoints |-> hb, dr |-> dr, dr6 |-> dr6, dr7 |-> dr7, log |-> <<>>]

\* The next request is the one that fails.
Failing(m, f) == f = Len(m.log) + 1

ReadReg(m, reg) == IF reg = 6 THEN m.dr6 ELSE IF reg = 7 THEN m.dr7 ELSE m.dr[reg]

ptrace_peekuser(m, reg, f) ==
    [m   |-> [m EXCEPT !.log = Append(@, [req |-> "PEEKUSER", reg |-> reg, ok |-> ~Failing(m, f)])],
     ok  |-> ~Failing(m, f),
     val |-> ReadReg(m, reg)]

WriteReg(m, reg, val) ==
    IF reg = 6 THEN [m EXCEPT !.dr6 = val]
    ELSE IF reg = 7 THEN [m EXCEPT !.dr7 = val]
    ELSE [m EXCEPT !.dr[reg] = val]

ptrace_pokeuser(m, reg, val, f) ==
    LET logged == [m EXCEPT !.log = Append(@, [req |-> "POKEUSER", reg |-> reg,
                                               ok |-> ~Failing(m, f), data |-> val])]
    IN [m  |-> IF Failing(m, f) THEN logged ELSE WriteReg(logged, reg, val),
        ok |-> ~Failing(m, f)]

(* ------------------------------ results ------------------------------- *)

Ok(v) == [kind |-> "Ok", val |-> v]

Err(e) == [kind |-> "Err", val |-> e]

Panic(msg) == [kind |-> "Panic", val |-> <<msg>>]

NoEmptyWatchpoint == <<"NoEmptyWatchpoint">>

DoesNotExist(index) == <<"DoesNotExist", index>>

\* The error a failed tracer request returns.
SysError == <<"Sys">>

(* ----------------------------- operations ----------------------------- *)

\* Mutant: a full table yields slot 0 instead of nothing.
find_empty_watchpoint_or_first(hb) ==
    IF \E i \in Slots : hb[i] = None
    THEN Some(CHOOSE i \in Slots : hb[i] = None /\ \A j \in Slots : j < i => hb[j] # None)
    ELSE Some(0)

\* Mutant: the last empty slot instead of the first.
find_empty_watchpoint_last(hb) ==
    IF \E i \in Slots : hb[i] = None
    THEN Some(CHOOSE i \in Slots : hb[i] = None /\ \A j \in Slots : j > i => hb[j] # None)
    ELSE None

find_empty_watchpoint(hb) ==
    IF \E i \in Slots : hb[i] = None
    THEN Some(CHOOSE i \in Slots : hb[i] = None /\ \A j \in Slots : j < i => hb[j] # None)
    ELSE None

\* let enable_bit: u64 = 1 << (2 * index);
enable_bit(index) == Shl({0}, 2 * index)

\* Mutant: the enable-bit check is left out.
watchpoint_in_use_never(dr7, index) == FALSE

\* if dr7 & (1 << (2 * index)) != 0 { panic!(..) }
watchpoint_in_use(dr7, index) == BitAnd(dr7, Shl({0}, 2 * index)) # {}

\* Mutant: the old bits of the slot are not masked out.
programmed_dr7_unmasked(dr7, mask, enable, rw, sz) ==
    BitOr(dr7, BitOr(enable, BitOr(rw, sz)))

\* dr7 = (dr7 & !bit_mask) | (enable_bit | rw_bits | size_bits);
programmed_dr7(dr7, mask, enable, rw, sz) ==
    BitOr(BitAnd(dr7, BitNot(mask)), BitOr(enable, BitOr(rw, sz)))

\* Mutant: when the write of DR6 fails, DR7 is put back as it was read.
program_registers_undone(m, index, addr, dr7, f) ==
    LET w0 == ptrace_pokeuser(m, index, addr, f) IN
    IF ~w0.ok THEN w0
    ELSE LET w7 == ptrace_pokeuser(w0.m, 7, dr7, f) IN
         IF ~w7.ok THEN w7
         ELSE LET w6 == ptrace_pokeuser(w7.m, 6, {}, f) IN
              IF w6.ok THEN w6 ELSE [w6 EXCEPT !.m.dr7 = m.dr7]

\* Mutant: only the status bit of the programmed slot is written as zero.
program_registers_own_bit(m, index, addr, dr7, f) ==
    LET w0 == ptrace_pokeuser(m, index, addr, f) IN
    IF ~w0.ok THEN w0
    ELSE LET w7 == ptrace_pokeuser(w0.m, 7, dr7, f) IN
         IF ~w7.ok THEN w7
         ELSE ptrace_pokeuser(w7.m, 6, BitAnd(w7.m.dr6, BitNot(Shl({0}, index))), f)

\* The requests of set_hardware_breakpoint after the DR7 check, in order.
program_registers(m, index, addr, dr7, f) ==
    LET w0 == ptrace_pokeuser(m, index, addr, f) IN
    IF ~w0.ok THEN w0
    ELSE LET w7 == ptrace_pokeuser(w0.m, 7, dr7, f) IN
         IF ~w7.ok THEN w7
         ELSE ptrace_pokeuser(w7.m, 6, {}, f)

set_hardware_breakpoint(m, breakpoint, f) ==
    LET empty == find_empty_watchpoint(m.hardware_breakpoints) IN
    IF empty = None THEN [m |-> m, res |-> Err(NoEmptyWatchpoint)]
    ELSE
    LET index == empty[1]
        p7    == ptrace_peekuser(m, 7, f)
    IN  IF ~p7.ok THEN [m |-> p7.m, res |-> Err(SysError)]
        ELSE IF watchpoint_in_use(p7.val, index)
        THEN [m |-> p7.m, res |-> Panic("Invalid debug register state")]
        ELSE LET dr7 == programmed_dr7(p7.val, bit_mask(index), enable_bit(index),
                                       rw_bits(breakpoint, index), size_bits(breakpoint, index))
                 w   == program_registers(p7.m, index, breakpoint.addr, dr7, f)
             IN IF ~w.ok THEN [m |-> w.m, res |-> Err(SysError)]
                ELSE [m   |-> [w.m EXCEPT !.hardware_breakpoints[index] = Some(breakpoint)],
                      res |-> Ok(<<index>>)]

\* Mutant: the R/W and LEN fields are cleared, the enable bit is left.
cleared_dr7_fields(dr7, index) == BitAnd(dr7, BitNot(bit_mask(index) \ {2 * index}))

\* dr7 = dr7 & !dr7_bit_mask;
cleared_dr7(dr7, index) == BitAnd(dr7, BitNot(bit_mask(index)))

\* Mutant: the whole status register is cleared, as set_hardware_breakpoint does.
cleared_dr6_all(dr6, index) == {}

\* dr6 = dr6 & !dr6_bit_mask as u64;
cleared_dr6(dr6, index) == BitAnd(dr6, BitNot(Shl({0}, index)))

\* Mutant: the slot is emptied before its content is read.
take_watchpoint_lost(m, index) ==
    [m   |-> [m EXCEPT !.hardware_breakpoints[index] = None],
     res |-> Ok(None)]

\* let watchpoint = std::mem::replace(&mut self.hardware_breakpoints[index], None);
take_watchpoint(m, index) ==
    [m   |-> [m EXCEPT !.hardware_breakpoints[index] = None],
     res |-> Ok(m.hardware_breakpoints[index])]

\* Mutant: the slot is not checked before the registers are touched.
clear_hardware_breakpoint_unchecked(m, index, f) ==
    IF index \notin Slots THEN [m |-> m, res |-> Panic("index out of bounds")]
    ELSE
    LET p7 == ptrace_peekuser(m, 7, f) IN
    IF ~p7.ok THEN [m |-> p7.m, res |-> Err(SysError)]
    ELSE
    LET p6 == ptrace_peekuser(p7.m, 6, f) IN
    IF ~p6.ok THEN [m |-> p6.m, res |-> Err(SysError)]
    ELSE
    LET w7 == ptrace_pokeuser(p6.m, 7, cleared_dr7(p7.val, index), f) IN
    IF ~w7.ok THEN [m |-> w7.m, res |-> Err(SysError)]
    ELSE
    LET w6 == ptrace_pokeuser(w7.m, 6, cleared_dr6(p6.val, index), f) IN
    IF ~w6.ok THEN [m |-> w6.m, res |-> Err(SysError)]
    ELSE IF m.hardware_breakpoints[index] = None
         THEN [m |-> w6.m, res |-> Panic("unwrap on None")]
         ELSE take_watchpoint(w6.m, index)

\* Mutant: an index past the table is answered like an empty slot.
clear_hardware_breakpoint_lenient(m, index, f) ==
    IF index \notin Slots THEN [m |-> m, res |-> Err(DoesNotExist(index))]
    ELSE IF m.hardware_breakpoints[index] = None
    THEN [m |-> m, res |-> Err(DoesNotExist(index))]
    ELSE
    LET p7 == ptrace_peekuser(m, 7, f) IN
    IF ~p7.ok THEN [m |-> p7.m, res |-> Err(SysError)]
    ELSE
    LET p6 == ptrace_peekuser(p7.m, 6, f) IN
    IF ~p6.ok THEN [m |-> p6.m, res |-> Err(SysError)]
    ELSE
    LET w7 == ptrace_pokeuser(p6.m, 7, cleared_dr7(p7.val, index), f) IN
    IF ~w7.ok THEN [m |-> w7.m, res |-> Err(SysError)]
    ELSE
    LET w6 == ptrace_pokeuser(w7.m, 6, cleared_dr6(p6.val, index), f) IN
    IF ~w6.ok THEN [m |-> w6.m, res |-> Err(SysError)]
    ELSE take_watchpoint(w6.m, index)

clear_hardware_breakpoint(m, index, f) ==
    IF index \notin Slots THEN [m |-> m, res |-> Panic("index out of bounds")]
    ELSE IF m.hardware_breakpoints[index] = None
    THEN [m |-> m, res |-> Err(DoesNotExist(index))]
    ELSE
    LET p7 == ptrace_peekuser(m, 7, f) IN
    IF ~p7.ok THEN [m |-> p7.m, res |-> Err(SysError)]
    ELSE
    LET p6 == ptrace_peekuser(p7.m, 6, f) IN
    IF ~p6.ok THEN [m |-> p6.m, res |-> Err(SysError)]
    ELSE
    LET w7 == ptrace_pokeuser(p6.m, 7, cleared_dr7(p7.val, index), f) IN
    IF ~w7.ok THEN [m |-> w7.m, res |-> Err(SysError)]
    ELSE
    LET w6 == ptrace_pokeuser(w7.m, 6, cleared_dr6(p6.val, index), f) IN
    IF ~w6.ok THEN [m |-> w6.m, res |-> Err(SysError)]
    ELSE take_watchpoint(w6.m, index)

RECURSIVE clear_all_from_every(_, _, _)
\* Mutant: every slot is cleared, the empty ones too.
clear_all_from_every(m, index, f) ==
    IF index >= SUPPORTED_HARDWARE_BREAKPOINTS THEN [m |-> m, res |-> Ok(<<>>)]
    ELSE LET c == clear_hardware_breakpoint(m, index, f)
         IN IF c.res.kind # "Ok" THEN [m |-> c.m, res |-> c.res]
            ELSE clear_all_from_every(c.m, index + 1, f)

RECURSIVE clear_all_from_on(_, _, _)
\* Mutant: the loop goes on after a clear that failed and returns its error
\* at the end.
clear_all_from_on(m, index, f) ==
    IF index >= SUPPORTED_HARDWARE_BREAKPOINTS THEN [m |-> m, res |-> Ok(<<>>)]
    ELSE IF m.hardware_breakpoints[index] = None THEN clear_all_from_on(m, index + 1, f)
    ELSE LET c == clear_hardware_breakpoint(m, index, f)
             r == clear_all_from_on(c.m, index + 1, f)
         IN IF c.res.kind # "Ok" THEN [m |-> r.m, res |-> c.res] ELSE r

RECURSIVE clear_all_from(_, _, _)
\* The loop of clear_all_hardware_breakpoints from slot `index` on.
clear_all_from(m, index, f) ==
    IF index >= SUPPORTED_HARDWARE_BREAKPOINTS THEN [m |-> m, res |-> Ok(<<>>)]
    ELSE IF m.hardware_breakpoints[index] = None THEN clear_all_from(m, index + 1, f)
    ELSE LET c == clear_hardware_breakpoint(m, index, f)
         IN IF c.res.kind # "Ok" THEN [m |-> c.m, res |-> c.res]
            ELSE clear_all_from(c.m, index + 1, f)

clear_all_hardware_breakpoints(m, f) == clear_all_from(m, 0, f)

\* Mutant: the status bit alone decides, occupied slot or not.
slot_triggered_any(hb, dr7, i) == BitAnd(dr7, Shl({0}, i)) # {}

\* if dr7 & (1 << i) != 0 && self.hardware_breakpoints[i].is_some()
slot_triggered(hb, dr7, i) == BitAnd(dr7, Shl({0}, i)) # {} /\ hb[i] # None

\* Mutant: every status bit is written as zero with the one reported.
acknowledged_all(dr7, i) == {}

\* Mutant: the status bit is written back as it was read.
acknowledged_not(dr7, i) == dr7

\* dr7 &= !(1 << i);
acknowledged(dr7, i) == BitAnd(dr7, BitNot(Shl({0}, i)))

RECURSIVE triggered_from(_, _, _, _)
\* The loop of is_hardware_breakpoint_triggered from slot `i` on; `dr7` is
\* the local of that name, which holds the value read from DR6.
triggered_from(m, dr7, i, f) ==
    IF i >= SUPPORTED_HARDWARE_BREAKPOINTS THEN [m |-> m, res |-> Ok(None)]
    ELSE IF slot_triggered(m.hardware_breakpoints, dr7, i)
    THEN LET w6 == ptrace_pokeuser(m, 6, acknowledged(dr7, i), f)
         IN IF ~w6.ok THEN [m |-> w6.m, res |-> Err(SysError)]
            ELSE [m |-> w6.m, res |-> Ok(Some(i))]
    ELSE triggered_from(m, dr7, i + 1, f)

is_hardware_breakpoint_triggered(m, f) ==
    LET p6 == ptrace_peekuser(m, 6, f)
    IN IF ~p6.ok THEN [m |-> p6.m, res |-> Err(SysError)]
       ELSE triggered_from(p6.m, p6.val, 0, f)

(* ------------------------------- state -------------------------------- *)

VARIABLES
    hardware_breakpoints,   \* LinuxTarget.hardware_breakpoints
    dr,                     \* DR0..DR3 of the debuggee
    dr6,                    \* DR6, the debug status register
    dr7,                    \* DR7, the debug control register
    call,                   \* the last step: operation, argument, result, requests, state before
    nfail,                  \* tracer requests that failed so far
    scenario,               \* the caller and debuggee of this run
    regs,                   \* user_regs_struct of the debuggee's main thread
    text,                   \* the debuggee's memory, one word per address
    process,                \* the debuggee process as the kernel's tracer interface sees it
    task,                   \* LinuxThread.task and the thread it was enumerated from
    maps,                   \* the entries of the debuggee's memory map
    symbol,                 \* Symbol.symbol, the wrapped object-file symbols
    demangled_name,         \* Symbol.demangled_name, the cache cells
    demangles,              \* how often each symbol's name has been computed
    pages,                  \* the debuggee's pages: their bytes and read protection
    requests                \* the batch a ReadMemory is built with

vars ==
    <<hardware_breakpoints, dr, dr6, dr7, call, nfail, scenario, regs, text, process,
      task, maps, symbol, demangled_name, demangles, pages, requests>>

Current == Machine(hardware_breakpoints, dr, dr6, dr7)

\* Status bits the hardware raises: B0..B3.
StatusBits == Slots

NoCall == [op |-> "new", arg |-> <<>>, res |-> Ok(<<>>), log |-> <<>>, pre |-> <<>>]

\* LinuxTarget::new: every slot empty.
Init ==
    /\ scenario \in Scenarios
    /\ hardware_breakpoints = [i \in Slots |-> None]
    /\ dr = [i \in Slots |-> 0]
    /\ dr6 = {}
    /\ dr7 = scenario.dr7
    /\ call = NoCall
    /\ nfail = 0
    /\ regs = <<>> /\ text = <<>>
    /\ process = <<>>
    /\ task = <<>>
    /\ maps = <<>>
    /\ symbol = <<>> /\ demangled_name = <<>> /\ demangles = <<>>
    /\ pages = <<>> /\ requests = <<>>

Panicked == call.res.kind = "Panic"

\* The request that fails, if any, is one the operation issues: `n` is the
\* number of requests of the run in which none fails.
FailPoints(n) == IF nfail < scenario.faults THEN 0 .. n ELSE {0}

RequestFailed(log) == \E k \in 1 .. Len(log) : ~log[k].ok

\* What a call made now can do, one outcome per request that may fail.
SetOutcomes(bp) ==
    { set_hardware_breakpoint(Current, bp, f) :
        f \in FailPoints(Len(set_hardware_breakpoint(Current, bp, 0).m.log)) }

ClearOutcomes(index) ==
    { clear_hardware_breakpoint(Current, index, f) :
        f \in FailPoints(Len(clear_hardware_breakpoint(Current, index, 0).m.log)) }

ClearAllOutcomes ==
    { clear_all_hardware_breakpoints(Current, f) :
        f \in FailPoints(Len(clear_all_hardware_breakpoints(Current, 0).m.log)) }

IsTriggeredOutcomes ==
    { is_hardware_breakpoint_triggered(Current, f) :
        f \in FailPoints(Len(is_hardware_breakpoint_triggered(Current, 0).m.log)) }

Return(op, arg, out) ==
    /\ hardware_breakpoints' = out.m.hardware_breakpoints
    /\ dr' = out.m.dr
    /\ dr6' = out.m.dr6
    /\ dr7' = out.m.dr7
    /\ call' = [op |-> op, arg |-> arg, res |-> out.res, log |-> out.m.log,
                pre |-> [hardware_breakpoints |-> hardware_breakpoints, dr |-> dr,
                         dr6 |-> dr6, dr7 |-> dr7]]
    /\ nfail' = IF RequestFailed(out.m.log) THEN nfail + 1 ELSE nfail
    /\ UNCHANGED scenario
    /\ UNCHANGED <<regs, text, process, task, maps, symbol, demangled_name, demangles, pages, requests>>

SetHardwareBreakpoint ==
    /\ ~Panicked
    /\ \E bp \in scenario.breakpoints :
         \E out \in SetOutcomes(bp) : Return("set", <<bp>>, out)

ClearHardwareBreakpoint ==
    /\ ~Panicked
    /\ \E index \in 0 .. MaxIndex :
         \E out \in ClearOutcomes(index) : Return("clear", <<index>>, out)

ClearAllHardwareBreakpoints ==
    /\ ~Panicked
    /\ \E out \in ClearAllOutcomes : Return("clear_all", <<>>, out)

IsHardwareBreakpointTriggered ==
    /\ ~Panicked
    /\ \E out \in IsTriggeredOutcomes : Return("is_triggered", <<>>, out)

\* The debuggee runs and the processor sets a status bit of DR6.
HardwareEvent ==
    /\ ~Panicked
    /\ Cardinality(dr6) < MaxPending
    /\ \E b \in StatusBits \ dr6 :
        /\ dr6' = dr6 \cup {b}
        /\ call' = [op |-> "event", arg |-> <<b>>, res |-> Ok(<<>>), log |-> <<>>, pre |-> <<>>]
        /\ UNCHANGED <<hardware_breakpoints, dr, dr7, nfail, scenario>>
        /\ UNCHANGED <<regs, text, process, task, maps, symbol, demangled_name, demangles, pages, requests>>

Next ==
    \/ SetHardwareBreakpoint
    \/ ClearHardwareBreakpoint
    \/ ClearAllHardwareBreakpoints
    \/ IsHardwareBreakpointTriggered
    \/ HardwareEvent

Spec == Init /\ [][Next]_vars

(* ------------------------------- claims ------------------------------- *)

\* A result is Ok(v), Err(e), a panic.
IsOk(res, v) == res.kind = "Ok" /\ res.val = v

IsErr(res, e) == res.kind = "Err" /\ res.val = e

IsPanic(res) == res.kind = "Panic"

Occupied(hb) == {i \in Slots : hb[i] # None}

Full(hb) == Occupied(hb) = Slots

TableUnchanged == hardware_breakpoints = call.pre.hardware_breakpoints

RegistersUnchanged == dr = call.pre.dr /\ dr6 = call.pre.dr6 /\ dr7 = call.pre.dr7

\* Every breakpoint value: the arguments of the scenarios and others.
AnyBreakpoint ==
    { Breakpoint(a, t, z) : a \in 0 .. 3, t \in {"Execute", "Write", "ReadWrite"},
                           z \in {"B1", "B2", "B4", "B8"} }

\* C1: the table has SUPPORTED_HARDWARE_BREAKPOINTS slots and no more; a
\* set_hardware_breakpoint called with all of them occupied returns
\* NoEmptyWatchpoint, issues no tracer request and changes neither the
\* table nor a debug register, whatever the breakpoint passed.
C1_SetWhenFull ==
    /\ DOMAIN hardware_breakpoints = Slots
    /\ Cardinality(Occupied(hardware_breakpoints)) <= SUPPORTED_HARDWARE_BREAKPOINTS
    /\ (call.op = "set" /\ Full(call.pre.hardware_breakpoints)) =>
          /\ IsErr(call.res, NoEmptyWatchpoint)
          /\ call.log = <<>>
          /\ TableUnchanged
          /\ RegistersUnchanged
    /\ Full(hardware_breakpoints) =>
          \A bp \in AnyBreakpoint, f \in 0 .. 4 :
              /\ set_hardware_breakpoint(Current, bp, f).m = Current
              /\ IsErr(set_hardware_breakpoint(Current, bp, f).res, NoEmptyWatchpoint)

C1_Witness ==
    /\ call.op = "set"
    /\ Full(call.pre.hardware_breakpoints)
    /\ IsErr(call.res, NoEmptyWatchpoint)

\* C2 as claimed: after a set_hardware_breakpoint(bp) that returned index i,
\* every clear_hardware_breakpoint(i) called next returns Ok(bp) and leaves
\* the table as it was before the set.
C2_SetThenClearAlways ==
    (call.op = "set" /\ call.res.kind = "Ok") =>
        \A out \in ClearOutcomes(call.res.val[1]) :
            /\ IsOk(out.res, Some(call.arg[1]))
            /\ out.m.hardware_breakpoints = call.pre.hardware_breakpoints

\* C2 amended: after a set_hardware_breakpoint(bp) that returned index i, a
\* clear_hardware_breakpoint(i) called next in which no tracer request fails
\* returns Ok(bp) and leaves the table as it was before the set; one in
\* which a request fails returns that error and leaves bp in slot i.
C2_SetThenClear ==
    (call.op = "set" /\ call.res.kind = "Ok") =>
        \A out \in ClearOutcomes(call.res.val[1]) :
            IF RequestFailed(out.m.log)
            THEN /\ IsErr(out.res, SysError)
                 /\ out.m.hardware_breakpoints = hardware_breakpoints
            ELSE /\ IsOk(out.res, Some(call.arg[1]))
                 /\ out.m.hardware_breakpoints = call.pre.hardware_breakpoints

\* A set into a slot below occupied ones, then cleared again.
C2_Witness ==
    /\ call.op = "set"
    /\ IsOk(call.res, <<1>>)
    /\ call.pre.hardware_breakpoints[2] # None
    /\ call.pre.hardware_breakpoints[2] # Some(call.arg[1])
    /\ \E out \in ClearOutcomes(1) :
          /\ IsOk(out.res, Some(call.arg[1]))
          /\ out.m.hardware_breakpoints = call.pre.hardware_breakpoints

\* C3: a set_hardware_breakpoint that succeeds returns the lowest index
\* whose slot was empty, stores the breakpoint there and changes no other
\* slot; on a new Target and after a clear_all_hardware_breakpoints that
\* succeeded, a set that succeeds returns 0.
C3_LowestEmptySlot ==
    /\ (call.op = "set" /\ call.res.kind = "Ok") =>
          LET i == call.res.val[1] IN
          /\ i \in Slots
          /\ call.pre.hardware_breakpoints[i] = None
          /\ \A j \in Slots : j < i => call.pre.hardware_breakpoints[j] # None
          /\ hardware_breakpoints =
                 [call.pre.hardware_breakpoints EXCEPT ![i] = Some(call.arg[1])]
    /\ (call.op = "new" \/ (call.op = "clear_all" /\ call.res.kind = "Ok")) =>
          /\ Occupied(hardware_breakpoints) = {}
          /\ \A bp \in scenario.breakpoints : \A out \in SetOutcomes(bp) :
                 out.res.kind = "Ok" => out.res.val = <<0>>
          /\ \A bp \in scenario.breakpoints :
                 0 \notin dr7 => IsOk(set_hardware_breakpoint(Current, bp, 0).res, <<0>>)

\* A set that fills a hole below an occupied slot, with a higher slot empty too.
C3_Witness ==
    /\ call.op = "set"
    /\ IsOk(call.res, <<1>>)
    /\ call.pre.hardware_breakpoints[2] # None
    /\ call.pre.hardware_breakpoints[3] = None

\* A set that returns 0 right after a clear_all that emptied a full table.
C3_WitnessAfterClearAll ==
    /\ call.op = "clear_all"
    /\ call.res.kind = "Ok"
    /\ Full(call.pre.hardware_breakpoints)
    /\ \E bp \in scenario.breakpoints : IsOk(set_hardware_breakpoint(Current, bp, 0).res, <<0>>)

\* The slot set_hardware_breakpoint picks in a table that is not full.
LowestEmpty(hb) == CHOOSE i \in Slots : hb[i] = None /\ \A j \in Slots : j < i => hb[j] # None

\* The DR7 bits of slot i: the local enable bit and the R/W and LEN fields.
SlotBits(i) == {2 * i} \cup {4 * i + 16, 4 * i + 17, 4 * i + 18, 4 * i + 19}

IsPeek(entry, reg) == entry.req = "PEEKUSER" /\ entry.reg = reg

IsPoke(entry, reg, data) == entry.req = "POKEUSER" /\ entry.reg = reg /\ entry.data = data

\* C4: a set_hardware_breakpoint(bp) that succeeds into slot i leaves
\* DR[i] = bp.addr, DR7 with bit 2i set, the R/W field of slot i holding
\* bp.typ (00 execute, 01 write, 11 read/write), the LEN field holding
\* bp.size (00 1B, 01 2B, 10 8B, 11 4B) and every bit outside slot i as it
\* was read, and DR6 = 0; it wrote DR[i], DR7, DR6 in this order. A set
\* issues its requests in this order up to the first that fails, and the
\* table changes only when none failed.
C4_SetProgramsRegisters ==
    /\ (call.op = "set" /\ call.res.kind = "Ok") =>
          LET i  == call.res.val[1]
              bp == call.arg[1]
          IN  /\ dr[i] = bp.addr
              /\ 2 * i \in dr7
              /\ (16 + 4 * i \in dr7) <=> (bp.typ \in {"Write", "ReadWrite"})
              /\ (17 + 4 * i \in dr7) <=> (bp.typ = "ReadWrite")
              /\ (18 + 4 * i \in dr7) <=> (bp.size \in {"B2", "B4"})
              /\ (19 + 4 * i \in dr7) <=> (bp.size \in {"B8", "B4"})
              /\ \A b \in Word \ SlotBits(i) : (b \in dr7) <=> (b \in call.pre.dr7)
              /\ dr6 = {}
              /\ Len(call.log) = 4
              /\ \A k \in 1 .. 4 : call.log[k].ok
    /\ (call.op = "set" /\ call.log # <<>>) =>
          LET i == LowestEmpty(call.pre.hardware_breakpoints)
              n == Len(call.log)
          IN  /\ n <= 4
              /\ IsPeek(call.log[1], 7)
              /\ n >= 2 => IsPoke(call.log[2], i, call.arg[1].addr)
              /\ n >= 3 => /\ IsPoke(call.log[3], 7, call.log[3].data)
                           /\ call.log[3].data \ SlotBits(i) = call.pre.dr7 \ SlotBits(i)
                           /\ 2 * i \in call.log[3].data
                           /\ (call.log[3].ok => dr7 = call.log[3].data)
              /\ n >= 4 => IsPoke(call.log[4], 6, {})
              /\ \A k \in 1 .. n - 1 : call.log[k].ok
    /\ (call.op = "set" /\ RequestFailed(call.log)) => TableUnchanged

\* A read/write 4-byte breakpoint set into slot 2 while DR6 and DR7 hold other bits.
C4_Witness ==
    /\ call.op = "set"
    /\ IsOk(call.res, <<2>>)
    /\ call.arg[1].typ = "ReadWrite"
    /\ call.arg[1].size = "B4"
    /\ call.pre.dr6 # {}
    /\ 10 \in call.pre.dr7

\* C5: a set_hardware_breakpoint that reads DR7 with the local enable bit
\* of the empty slot it picked already set panics: it has issued the read
\* alone, writes no register and leaves the table as it was.
C5_NoSilentOverwrite ==
    (/\ call.op = "set"
     /\ ~Full(call.pre.hardware_breakpoints)
     /\ call.log[1].ok
     /\ 2 * LowestEmpty(call.pre.hardware_breakpoints) \in call.pre.dr7) =>
        /\ IsPanic(call.res)
        /\ Len(call.log) = 1
        /\ IsPeek(call.log[1], 7)
        /\ TableUnchanged
        /\ RegistersUnchanged

C5_Witness ==
    /\ call.op = "set"
    /\ IsPanic(call.res)
    /\ 2 * LowestEmpty(call.pre.hardware_breakpoints) \in call.pre.dr7
    /\ \E j \in Slots : j > LowestEmpty(call.pre.hardware_breakpoints)
                         /\ call.pre.hardware_breakpoints[j] = None

\* C6: clear_hardware_breakpoint(i) with i a slot that is empty returns
\* DoesNotExist(i), issues no tracer request and changes neither the table
\* nor a debug register.
C6_ClearEmptySlot ==
    (/\ call.op = "clear"
     /\ call.arg[1] \in Slots
     /\ call.pre.hardware_breakpoints[call.arg[1]] = None) =>
        /\ IsErr(call.res, DoesNotExist(call.arg[1]))
        /\ call.log = <<>>
        /\ TableUnchanged
        /\ RegistersUnchanged

\* Slot 1 cleared while empty, with other slots occupied and its status bit pending.
C6_Witness ==
    /\ call.op = "clear"
    /\ call.arg = <<1>>
    /\ call.pre.hardware_breakpoints[1] = None
    /\ call.pre.hardware_breakpoints[0] # None
    /\ 1 \in call.pre.dr6
    /\ IsErr(call.res, DoesNotExist(1))

\* C7: a clear_hardware_breakpoint(i) that succeeds was called on an
\* occupied slot and changes exactly this: the bits 2i and 4i+16..4i+19 of
\* DR7 and the bit i of DR6 are 0, slot i is empty.
C7_ClearFrame ==
    (call.op = "clear" /\ call.res.kind = "Ok") =>
        LET i == call.arg[1] IN
        /\ call.pre.hardware_breakpoints[i] # None
        /\ dr7 = call.pre.dr7 \ SlotBits(i)
        /\ dr6 = call.pre.dr6 \ {i}
        /\ dr = call.pre.dr
        /\ hardware_breakpoints = [call.pre.hardware_breakpoints EXCEPT ![i] = None]

\* Slot 1 cleared with its status bit and another pending and slot 2 occupied.
C7_Witness ==
    /\ call.op = "clear"
    /\ call.res.kind = "Ok"
    /\ call.arg = <<1>>
    /\ call.pre.hardware_breakpoints[2] # None
    /\ {1, 2} \subseteq call.pre.dr6
    /\ 10 \in call.pre.dr7

\* C8: a clear_all_hardware_breakpoints in which no tracer request fails
\* returns Ok with every slot empty and the local enable bit of every slot
\* that was occupied clear; it issues the four requests of a clear for each
\* occupied slot and nothing for an empty one, whose DR7 bits and DR6 bit
\* it leaves alone.
C8_ClearAll ==
    (call.op = "clear_all" /\ ~RequestFailed(call.log)) =>
        LET was == Occupied(call.pre.hardware_breakpoints) IN
        /\ IsOk(call.res, <<>>)
        /\ Occupied(hardware_breakpoints) = {}
        /\ \A i \in was : 2 * i \notin dr7
        /\ Len(call.log) = 4 * Cardinality(was)
        /\ \A i \in Slots \ was :
              /\ dr7 \cap SlotBits(i) = call.pre.dr7 \cap SlotBits(i)
              /\ (i \in dr6) <=> (i \in call.pre.dr6)
        /\ dr = call.pre.dr

\* Slots 0 and 2 cleared, slot 1 empty with its status bit pending.
C8_Witness ==
    /\ call.op = "clear_all"
    /\ IsOk(call.res, <<>>)
    /\ Occupied(call.pre.hardware_breakpoints) = {0, 2}
    /\ 1 \in call.pre.dr6
    /\ 1 \in dr6

\* The occupied slots whose status bit was set when the last call began.
Pending == {i \in Slots : i \in call.pre.dr6 /\ call.pre.hardware_breakpoints[i] # None}

\* C9 as claimed: is_hardware_breakpoint_triggered returns Some(i) exactly
\* when i is the lowest occupied slot whose DR6 bit is set and None when
\* there is none; an empty slot is never reported and its DR6 bit stays;
\* the table does not change.
C9_TriggeredLowestAlways ==
    call.op = "is_triggered" =>
        /\ \A i \in Slots :
              IsOk(call.res, Some(i)) <=> (i \in Pending /\ \A j \in Pending : i <= j)
        /\ Pending = {} => IsOk(call.res, None)
        /\ \A i \in Slots \ Occupied(call.pre.hardware_breakpoints) :
              /\ ~IsOk(call.res, Some(i))
              /\ (i \in dr6) <=> (i \in call.pre.dr6)
        /\ TableUnchanged

\* C9 amended: an is_hardware_breakpoint_triggered in which no tracer
\* request fails returns Some(i) exactly when i is the lowest occupied slot
\* whose DR6 bit is set and None when there is none; one in which the read
\* or the write of DR6 fails returns that error. In every case an empty
\* slot is never reported and its DR6 bit stays, and the table does not
\* change.
C9_TriggeredLowest ==
    call.op = "is_triggered" =>
        /\ ~RequestFailed(call.log) =>
              /\ \A i \in Slots :
                    IsOk(call.res, Some(i)) <=> (i \in Pending /\ \A j \in Pending : i <= j)
              /\ Pending = {} => IsOk(call.res, None)
        /\ RequestFailed(call.log) => IsErr(call.res, SysError) /\ RegistersUnchanged
        /\ \A i \in Slots \ Occupied(call.pre.hardware_breakpoints) :
              /\ ~IsOk(call.res, Some(i))
              /\ (i \in dr6) <=> (i \in call.pre.dr6)
        /\ TableUnchanged

\* Slot 2 reported while the bit of the empty slot 1 is set, and stays set.
C9_Witness ==
    /\ call.op = "is_triggered"
    /\ IsOk(call.res, Some(2))
    /\ call.pre.hardware_breakpoints[1] = None
    /\ 1 \in call.pre.dr6
    /\ 1 \in dr6

\* C10: an is_hardware_breakpoint_triggered that returns Some(i) found bit
\* i of DR6 set and has written DR6 back with that bit alone cleared; and
\* a bit of DR6 that is clear becomes set only by a hardware event on that
\* bit. So Some(i) is not returned again before the hardware sets bit i
\* again.
C10_ReportedOnce ==
    /\ [](\A i \in Slots :
            (call.op = "is_triggered" /\ IsOk(call.res, Some(i))) =>
                /\ i \in call.pre.dr6
                /\ Len(call.log) = 2
                /\ IsPoke(call.log[2], 6, call.pre.dr6 \ {i})
                /\ call.log[2].ok
                /\ dr6 = call.pre.dr6 \ {i})
    /\ [][\A i \in Slots :
            (i \notin dr6 /\ i \in dr6') => (call'.op = "event" /\ call'.arg = <<i>>)]_vars
    /\ [][\A i \in Slots :
            (call'.op = "is_triggered" /\ IsOk(call'.res, Some(i))) => i \in dr6]_vars

\* Slot 0 reported while the bit of slot 1, occupied too, stays pending.
C10_Witness ==
    /\ call.op = "is_triggered"
    /\ IsOk(call.res, Some(0))
    /\ call.pre.dr6 = {0, 1}
    /\ call.pre.hardware_breakpoints[1] # None
    /\ dr6 = {1}

(* -------------------------- syscall injection ------------------------- *)

\* 0x050f, the x86_64 syscall instruction as the poked word.
SYSCALL_OPCODE == 1295

\* libc::SYS_mmap on x86_64.
SYS_mmap == 9

\* Bytes of a machine word.
WORD_BYTES == WORD_BITS \div 8

\* Length of the syscall instruction 0f 05.
SYSCALL_LEN == 2

\* Addresses of the debuggee's memory that the runs touch: the instruction
\* pointer starts at 0 or 1 and moves on by one syscall instruction in each
\* injection that fails after its step.
TextAddrs == 0 .. (SYSCALL_LEN * MaxFail + WORD_BYTES)

RECURSIVE le_bytes(_, _)
\* The `n` low bytes of a word, lowest first, as they lie in memory.
le_bytes(value, n) ==
    IF n = 0 THEN <<>> ELSE <<value % 256>> \o le_bytes(value \div 256, n - 1)

\* The debuggee as the syscall injection sees it, with the requests made so far.
Debuggee(r, t) == [regs |-> r, text |-> t, log |-> <<>>]

Logged(d, entry) == [d EXCEPT !.log = Append(@, entry)]

\* nix::sys::ptrace::getregs
read_regs(d, f) ==
    IF Failing(d, f)
    THEN [d |-> Logged(d, [req |-> "GETREGS", ok |-> FALSE]), ok |-> FALSE, val |-> <<>>]
    ELSE [d |-> Logged(d, [req |-> "GETREGS", ok |-> TRUE, val |-> d.regs]),
          ok |-> TRUE, val |-> d.regs]

\* nix::sys::ptrace::setregs
write_regs(d, r, f) ==
    IF Failing(d, f)
    THEN [d |-> Logged(d, [req |-> "SETREGS", ok |-> FALSE, regs |-> r]), ok |-> FALSE]
    ELSE [d |-> Logged([d EXCEPT !.regs = r], [req |-> "SETREGS", ok |-> TRUE, regs |-> r]),
          ok |-> TRUE]

\* The word of the debuggee's memory that starts at `addr`, as bytes.
WordAt(t, addr) == [k \in 1 .. WORD_BYTES |-> t[addr + k - 1]]

\* nix::sys::ptrace::read: PTRACE_PEEKDATA of one word.
ptrace_read(d, addr, f) ==
    IF Failing(d, f)
    THEN [d |-> Logged(d, [req |-> "PEEKDATA", ok |-> FALSE, addr |-> addr]),
          ok |-> FALSE, val |-> <<>>]
    ELSE [d |-> Logged(d, [req |-> "PEEKDATA", ok |-> TRUE, addr |-> addr]),
          ok |-> TRUE, val |-> WordAt(d.text, addr)]

\* The memory after the word `bytes` is stored at `addr`.
Stored(t, addr, bytes) ==
    [a \in DOMAIN t |->
        IF a >= addr /\ a < addr + WORD_BYTES THEN bytes[a - addr + 1] ELSE t[a]]

\* nix::sys::ptrace::write: PTRACE_POKEDATA of one word.
ptrace_write(d, addr, bytes, f) ==
    IF Failing(d, f)
    THEN [d |-> Logged(d, [req |-> "POKEDATA", ok |-> FALSE, addr |-> addr, data |-> bytes]),
          ok |-> FALSE]
    ELSE [d |-> Logged([d EXCEPT !.text = Stored(@, addr, bytes)],
                       [req |-> "POKEDATA", ok |-> TRUE, addr |-> addr, data |-> bytes]),
          ok |-> TRUE]

\* The debuggee executes the instruction at its instruction pointer. A
\* syscall instruction enters the kernel, which leaves the result `ret` in
\* rax and the return address in rcx; any other instruction is one byte
\* long here and changes no register but rip.
Executed(r, t, ret) ==
    IF t[r.rip] = 15 /\ t[r.rip + 1] = 5
    THEN [r EXCEPT !.rax = ret, !.rcx = r.rip + SYSCALL_LEN, !.rip = r.rip + SYSCALL_LEN]
    ELSE [r EXCEPT !.rip = r.rip + 1]

\* nix::sys::ptrace::step: PTRACE_SINGLESTEP.
ptrace_step(d, ret, f) ==
    IF Failing(d, f)
    THEN [d |-> Logged(d, [req |-> "SINGLESTEP", ok |-> FALSE]), ok |-> FALSE]
    ELSE [d |-> Logged([d EXCEPT !.regs = Executed(d.regs, d.text, ret)],
                       [req |-> "SINGLESTEP", ok |-> TRUE]),
          ok |-> TRUE]

\* nix::sys::wait::waitpid
waitpid(d, f) ==
    IF Failing(d, f)
    THEN [d |-> Logged(d, [req |-> "WAITPID", ok |-> FALSE]), ok |-> FALSE]
    ELSE [d |-> Logged(d, [req |-> "WAITPID", ok |-> TRUE]), ok |-> TRUE]

\* Mutant: the first two arguments change places.
injected_regs_swapped(orig_regs, num, a) ==
    [orig_regs EXCEPT !.rax = num, !.rdi = a[2], !.rsi = a[1], !.rdx = a[3],
                      !.r10 = a[4], !.r8 = a[5], !.r9 = a[6]]

\* new_regs: the saved registers with the syscall number and the arguments.
injected_regs(orig_regs, num, a) ==
    [orig_regs EXCEPT !.rax = num, !.rdi = a[1], !.rsi = a[2], !.rdx = a[3],
                      !.r10 = a[4], !.r8 = a[5], !.r9 = a[6]]

\* Mutant: the instruction is put back where the debuggee stands after the step.
restore_address_stepped(new_regs, stepped_regs) == stepped_regs.rip

\* new_regs.rip, where the old instruction is written back.
restore_address(new_regs, stepped_regs) == new_regs.rip

\* Mutant: an error puts the saved registers back before it is returned.
bail_restoring(d, orig_regs) == [d |-> [d EXCEPT !.regs = orig_regs], res |-> Err(SysError)]

\* `?`: the error is returned at once and the debuggee is left as it is.
bail(d, orig_regs) == [d |-> d, res |-> Err(SysError)]

\* Mutant: the result is the rax the debuggee has when the call returns.
syscall_result_late(stepped_regs, final_regs) == final_regs.rax

\* let res = self.read_regs()?.rax
syscall_result(stepped_regs, final_regs) == stepped_regs.rax

\* LinuxTarget::syscall. `ret` is what the kernel returns for the injected
\* syscall, `f` the request that fails (0: none).
syscall(d, num, a, ret, f) ==
    LET g1 == read_regs(d, f) IN
    IF ~g1.ok THEN bail(g1.d, d.regs) ELSE
    LET orig_regs == g1.val
        new_regs == injected_regs(orig_regs, num, a)
        s1 == write_regs(g1.d, new_regs, f) IN
    IF ~s1.ok THEN bail(s1.d, orig_regs) ELSE
    LET p1 == ptrace_read(s1.d, new_regs.rip, f) IN
    IF ~p1.ok THEN bail(p1.d, orig_regs) ELSE
    LET old_inst == p1.val
        w1 == ptrace_write(p1.d, new_regs.rip, le_bytes(SYSCALL_OPCODE, WORD_BYTES), f) IN
    IF ~w1.ok THEN bail(w1.d, orig_regs) ELSE
    LET st == ptrace_step(w1.d, ret, f) IN
    IF ~st.ok THEN bail(st.d, orig_regs) ELSE
    LET wt == waitpid(st.d, f) IN
    IF ~wt.ok THEN bail(wt.d, orig_regs) ELSE
    LET g2 == read_regs(wt.d, f) IN
    IF ~g2.ok THEN bail(g2.d, orig_regs) ELSE
    LET w2 == ptrace_write(g2.d, restore_address(new_regs, g2.val), old_inst, f) IN
    IF ~w2.ok THEN bail(w2.d, orig_regs) ELSE
    LET s2 == write_regs(w2.d, orig_regs, f) IN
    IF ~s2.ok THEN bail(s2.d, orig_regs) ELSE
    [d |-> s2.d, res |-> Ok(<<syscall_result(g2.val, s2.d.regs)>>)]

\* LinuxTarget::mmap
mmap(d, addr, length, prot, flags, fd, offset, ret, f) ==
    syscall(d, SYS_mmap, <<addr, length, prot, flags, fd, offset>>, ret, f)

\* The debuggees an injection starts on: stopped at address 0 or 1, in code
\* of distinct bytes, of equal bytes, or at a syscall instruction.
Registers(ip) ==
    [rax |-> 60, rdi |-> 61, rsi |-> 62, rdx |-> 63, r10 |-> 64, r8 |-> 65, r9 |-> 66,
     rcx |-> 67, rbx |-> 68, rip |-> ip]

Programs ==
    { [a \in TextAddrs |-> 100 + a],
      [a \in TextAddrs |-> 144],
      [a \in TextAddrs |-> IF a = 0 THEN 15 ELSE IF a = 1 THEN 5 ELSE 100 + a] }

\* What callers inject, and what the kernel answers.
SyscallNumbers == {1, 39}

SyscallArgs == {<<1, 2, 3, 4, 5, 6>>, <<6, 6, 0, 0, 0, 1>>}

MmapArgs == {<<0, 4, 3, 34, 7, 0>>}

KernelReturns == {0, 77}

\* A run in which at most MaxFail tracer requests fail and no breakpoint is set.
Faulty == [breakpoints |-> {}, dr7 |-> {}, faults |-> MaxFail]

SyscallInit ==
    /\ regs \in {Registers(ip) : ip \in {0, 1}}
    /\ text \in Programs
    /\ scenario = Faulty
    /\ call = NoCall
    /\ nfail = 0
    /\ hardware_breakpoints = <<>> /\ dr = <<>> /\ dr6 = {} /\ dr7 = {}
    /\ process = <<>>
    /\ task = <<>>
    /\ maps = <<>>
    /\ symbol = <<>> /\ demangled_name = <<>> /\ demangles = <<>>
    /\ pages = <<>> /\ requests = <<>>

SyscallReturn(op, arg, out) ==
    /\ regs' = out.d.regs
    /\ text' = out.d.text
    /\ call' = [op |-> op, arg |-> arg, res |-> out.res, log |-> out.d.log,
                pre |-> [regs |-> regs, text |-> text]]
    /\ nfail' = IF RequestFailed(out.d.log) THEN nfail + 1 ELSE nfail
    /\ UNCHANGED <<hardware_breakpoints, dr, dr6, dr7, scenario>>
    /\ UNCHANGED <<process, task, maps, symbol, demangled_name, demangles, pages, requests>>

Syscall ==
    \E num \in SyscallNumbers, a \in SyscallArgs, ret \in KernelReturns :
        \E f \in FailPoints(Len(syscall(Debuggee(regs, text), num, a, ret, 0).d.log)) :
            SyscallReturn("syscall", <<num, a, ret>>, syscall(Debuggee(regs, text), num, a, ret, f))

Mmap ==
    \E a \in MmapArgs, ret \in KernelReturns :
        \E f \in FailPoints(Len(syscall(Debuggee(regs, text), SYS_mmap, a, ret, 0).d.log)) :
            SyscallReturn("mmap", <<SYS_mmap, a, ret>>,
                          mmap(Debuggee(regs, text), a[1], a[2], a[3], a[4], a[5], a[6], ret, f))

SyscallSpec == SyscallInit /\ [][Syscall \/ Mmap]_vars

IsInjection == call.op \in {"syscall", "mmap"}

\* The syscall instruction 0f 05 padded into a word, as bytes in memory.
OpcodeWord == <<15, 5, 0, 0, 0, 0, 0, 0>>

\* The registers `r` carry the injected arguments `a`.
CarriesArgs(r, a) ==
    /\ r.rdi = a[1] /\ r.rsi = a[2] /\ r.rdx = a[3]
    /\ r.r10 = a[4] /\ r.r8 = a[5] /\ r.r9 = a[6]

\* C11: a successful injection issues getregs, setregs (rax = number, rdi,
\* rsi, rdx, r10, r8, r9 = arguments 1..6, every other register as saved),
\* peek at the saved rip, poke of the word 0x050f there, single-step,
\* waitpid, getregs, poke of the saved word, setregs of the saved registers,
\* in this order and nothing else; it returns the rax of the second
\* getregs, which is the kernel's result after the step.
C11_InjectionOrder ==
    (IsInjection /\ call.res.kind = "Ok") =>
        LET L == call.log
            orig == call.pre.regs
            num == call.arg[1]
            a == call.arg[2]
            ret == call.arg[3]
        IN  /\ Len(L) = 9
            /\ \A k \in 1 .. 9 : L[k].ok
            /\ L[1].req = "GETREGS" /\ L[1].val = orig
            /\ L[2].req = "SETREGS"
            /\ L[2].regs.rax = num /\ CarriesArgs(L[2].regs, a)
            /\ \A r \in {"rip", "rcx", "rbx"} : L[2].regs[r] = orig[r]
            /\ L[3].req = "PEEKDATA" /\ L[3].addr = orig.rip
            /\ L[4].req = "POKEDATA" /\ L[4].addr = orig.rip /\ L[4].data = OpcodeWord
            /\ L[5].req = "SINGLESTEP"
            /\ L[6].req = "WAITPID"
            /\ L[7].req = "GETREGS"
            /\ L[8].req = "POKEDATA" /\ L[8].data = WordAt(call.pre.text, orig.rip)
            /\ L[9].req = "SETREGS" /\ L[9].regs = orig
            /\ call.res.val = <<L[7].val.rax>>
            /\ L[7].val.rax = ret
            /\ L[7].val.rip = orig.rip + SYSCALL_LEN

\* An injection returned the kernel's 77, which rax held neither before
\* the call nor after it.
C11_Witness ==
    /\ call.op = "syscall"
    /\ IsOk(call.res, <<77>>)
    /\ call.pre.regs.rax = 60
    /\ regs.rax = 60
    /\ call.arg[2] = <<1, 2, 3, 4, 5, 6>>

\* C12: when syscall or mmap returns success the debuggee's registers are
\* the ones saved at the start, rip included, the word at the saved rip is
\* the word peeked before the overwrite, and the restoring poke went to the
\* saved rip, not to the rip the debuggee had after the step.
C12_InjectionRestores ==
    (IsInjection /\ call.res.kind = "Ok") =>
        /\ regs = call.pre.regs
        /\ WordAt(text, call.pre.regs.rip) = WordAt(call.pre.text, call.pre.regs.rip)
        /\ call.log[8].addr = call.pre.regs.rip
        /\ call.log[8].addr # call.log[7].val.rip

\* A successful mmap on code whose word at rip differs from the word two
\* bytes on, where the debuggee stood after the step.
C12_Witness ==
    /\ call.op = "mmap"
    /\ call.res.kind = "Ok"
    /\ call.pre.text[1] = 101
    /\ call.pre.regs.rip = 1
    /\ call.log[7].val.rip = 3
    /\ text = call.pre.text

\* C13: an injection in which a tracer request fails returns that error
\* with the failed request as its last one, and nothing is put back: after
\* a failed peek or opcode poke the registers carry the injected values;
\* after a failed step, waitpid, second getregs or restoring poke the
\* opcode word lies at the saved rip and the registers carry the injected
\* arguments; after a failed final setregs the instruction is back but the
\* registers are those read after the step.
C13_InjectionAborts ==
    IsInjection =>
        LET L == call.log
            n == Len(L)
            orig == call.pre.regs
            a == call.arg[2]
        IN  /\ call.res.kind \in {"Ok", "Err"}
            /\ call.res.kind = "Err" <=> RequestFailed(L)
            /\ call.res.kind = "Err" =>
                /\ call.res.val = SysError
                /\ ~L[n].ok /\ \A k \in 1 .. (n - 1) : L[k].ok
                /\ n \in {1, 2} => regs = orig /\ text = call.pre.text
                /\ n \in {3, 4} =>
                    /\ regs = L[2].regs /\ regs.rax = call.arg[1] /\ CarriesArgs(regs, a)
                    /\ text = call.pre.text
                /\ n \in 5 .. 8 =>
                    /\ WordAt(text, orig.rip) = OpcodeWord
                    /\ CarriesArgs(regs, a)
                /\ n = 5 => regs = L[2].regs
                /\ n = 8 => regs = L[7].val
                /\ n \in 6 .. 9 => regs.rip = orig.rip + SYSCALL_LEN
                /\ n = 9 =>
                    /\ WordAt(text, orig.rip) = WordAt(call.pre.text, orig.rip)
                    /\ CarriesArgs(regs, a)
                    /\ regs = L[7].val

\* The restoring poke failed: the opcode lies where other code was.
C13_Witness ==
    /\ call.op = "syscall"
    /\ call.res.kind = "Err"
    /\ Len(call.log) = 8
    /\ call.pre.text[call.pre.regs.rip] = 100 + call.pre.regs.rip
    /\ WordAt(text, call.pre.regs.rip) = OpcodeWord
    /\ regs.rdi = 1 /\ call.pre.regs.rdi = 61

(* ----------------------- launch, attach and me ------------------------ *)

\* Process ids of the runs, besides the debugger's own.
MaxPid == 3

Pids == 1 .. MaxPid

\* getpid() of the debugger.
OwnPid == 0

\* A process as the kernel keeps it: absent, running or traced (stopped
\* under a tracer), with the tracer's exit-kill option.
ProcessState(state, exitkill) == [state |-> state, exitkill |-> exitkill]

\* LinuxTarget::new
new(pid) == [pid |-> pid, hardware_breakpoints |-> [i \in Slots |-> None]]

NulError == <<"NulError">>

\* CString::new: a path with an interior NUL byte is refused.
CString_new(path) ==
    IF \E i \in 1 .. Len(path) : path[i] = 0 THEN Err(NulError) ELSE Ok(<<path>>)

FreePids(k) == {q \in Pids : k.process[q].state = "absent"}

\* unix::launch: fork, exec under trace and the wait for the initial stop,
\* as one primitive. It fails when the exec fails.
unix_launch(k, f) ==
    IF Failing(k, f) \/ FreePids(k) = {}
    THEN [k |-> Logged(k, [req |-> "LAUNCH", ok |-> FALSE]), ok |-> FALSE, val |-> <<>>]
    ELSE LET pid == CHOOSE q \in FreePids(k) : \A o \in FreePids(k) : q <= o
         IN  [k |-> Logged([k EXCEPT !.process[pid] = ProcessState("traced", FALSE)],
                           [req |-> "LAUNCH", ok |-> TRUE, pid |-> pid]),
              ok |-> TRUE, val |-> pid]

\* unix::attach: PTRACE_ATTACH and the wait for the stop. It fails when the
\* process does not exist or is traced already.
unix_attach(k, pid, f) ==
    IF Failing(k, f) \/ k.process[pid].state # "running"
    THEN [k |-> Logged(k, [req |-> "ATTACH", ok |-> FALSE, pid |-> pid]), ok |-> FALSE]
    ELSE [k |-> Logged([k EXCEPT !.process[pid] = ProcessState("traced", FALSE)],
                       [req |-> "ATTACH", ok |-> TRUE, pid |-> pid]),
          ok |-> TRUE]

\* LinuxTarget::kill_on_exit: setoptions(PTRACE_O_EXITKILL).
kill_on_exit(k, target, f) ==
    IF Failing(k, f) \/ k.process[target.pid].state # "traced"
    THEN [k |-> Logged(k, [req |-> "SETOPTIONS", ok |-> FALSE, pid |-> target.pid]),
          ok |-> FALSE]
    ELSE [k |-> Logged([k EXCEPT !.process[target.pid].exitkill = TRUE],
                       [req |-> "SETOPTIONS", ok |-> TRUE, pid |-> target.pid]),
          ok |-> TRUE]

\* LinuxTarget::launch
launch(k, path, f) ==
    IF CString_new(path).kind = "Err" THEN [k |-> k, res |-> CString_new(path)] ELSE
    LET l == unix_launch(k, f) IN
    IF ~l.ok THEN [k |-> l.k, res |-> Err(SysError)] ELSE
    LET target == new(l.val)
        o == kill_on_exit(l.k, target, f) IN
    IF ~o.ok THEN [k |-> o.k, res |-> Err(SysError)] ELSE
    [k |-> o.k, res |-> Ok(<<target>>)]

\* Mutant: attach arms the option whatever the options say.
arms_exit_kill_always(options) == TRUE

\* if options.kill_on_exit
arms_exit_kill(options) == options.kill_on_exit

\* LinuxTarget::attach
attach(k, pid, options, f) ==
    LET a == unix_attach(k, pid, f) IN
    IF ~a.ok THEN [k |-> a.k, res |-> Err(SysError)] ELSE
    LET target == new(pid) IN
    IF arms_exit_kill(options)
    THEN LET o == kill_on_exit(a.k, target, f) IN
         IF ~o.ok THEN [k |-> o.k, res |-> Err(SysError)]
         ELSE [k |-> o.k, res |-> Ok(<<target>>)]
    ELSE [k |-> a.k, res |-> Ok(<<target>>)]

\* LinuxTarget::me
me(k) == [k |-> k, res |-> Ok(<<new(OwnPid)>>)]

\* #[derive(Default)] AttachOptions
AttachOptionsDefault == [kill_on_exit |-> FALSE]

AttachOptions == {AttachOptionsDefault, [kill_on_exit |-> TRUE]}

\* Paths given to launch, as bytes: "/a" and one with an interior NUL.
Paths == {<<47, 97>>, <<47, 0, 97>>}

LaunchInit ==
    /\ process \in
         { [q \in {OwnPid} \cup Pids |->
              IF q = OwnPid \/ q \in running THEN ProcessState("running", FALSE)
              ELSE ProcessState("absent", FALSE)] : running \in SUBSET {1, 2} }
    /\ scenario = Faulty
    /\ call = NoCall
    /\ nfail = 0
    /\ hardware_breakpoints = <<>> /\ dr = <<>> /\ dr6 = {} /\ dr7 = {}
    /\ regs = <<>> /\ text = <<>>
    /\ task = <<>>
    /\ maps = <<>>
    /\ symbol = <<>> /\ demangled_name = <<>> /\ demangles = <<>>
    /\ pages = <<>> /\ requests = <<>>

\* `f` is the request made to fail, which the run reaches unless an earlier
\* request is refused by the kernel.
LaunchReturn(op, arg, out, f) ==
    /\ process' = out.k.process
    /\ call' = [op |-> op, arg |-> arg, res |-> out.res, log |-> out.k.log,
                pre |-> [process |-> process]]
    /\ nfail' = IF f # 0 /\ Len(out.k.log) >= f THEN nfail + 1 ELSE nfail
    /\ UNCHANGED <<hardware_breakpoints, dr, dr6, dr7, scenario>>
    /\ UNCHANGED <<regs, text, task, maps, symbol, demangled_name, demangles, pages, requests>>

Launch ==
    \E path \in Paths :
        \E f \in FailPoints(Len(launch([process |-> process, log |-> <<>>], path, 0).k.log)) :
            LaunchReturn("launch", <<path>>, launch([process |-> process, log |-> <<>>], path, f), f)

Attach ==
    \E pid \in Pids, options \in AttachOptions :
        \E f \in FailPoints(Len(attach([process |-> process, log |-> <<>>], pid, options, 0).k.log)) :
            LaunchReturn("attach", <<pid, options>>,
                         attach([process |-> process, log |-> <<>>], pid, options, f), f)

Me == LaunchReturn("me", <<>>, me([process |-> process, log |-> <<>>]), 0)

LaunchSpec == LaunchInit /\ [][Launch \/ Attach \/ Me]_vars

IsCreation == call.op \in {"launch", "attach", "me"}

\* C14: a returned Target has the exit-kill option armed exactly when it
\* comes from launch or from attach with kill_on_exit = true; attach with
\* kill_on_exit = false issues no setoptions; me issues no request; and a
\* setoptions is the second request, made after the launch or attach
\* primitive has succeeded.
C14_ExitKillArmed ==
    IsCreation =>
        /\ call.res.kind = "Ok" =>
             (process[call.res.val[1].pid].exitkill <=>
                \/ call.op = "launch"
                \/ call.op = "attach" /\ call.arg[2].kill_on_exit)
        /\ (call.op = "attach" /\ ~call.arg[2].kill_on_exit) =>
             \A k \in 1 .. Len(call.log) : call.log[k].req # "SETOPTIONS"
        /\ call.op = "me" => call.log = <<>> /\ process = call.pre.process
        /\ \A k \in 1 .. Len(call.log) :
             call.log[k].req = "SETOPTIONS" =>
                /\ k = 2
                /\ call.log[1].ok
                /\ call.log[1].req = (IF call.op = "launch" THEN "LAUNCH" ELSE "ATTACH")
                /\ call.pre.process[call.log[k].pid].state # "traced"
                /\ process[call.log[k].pid].state = "traced"

\* A default attach returned a Target of a traced process that is not armed,
\* after a launch had returned an armed one.
C14_Witness ==
    /\ call.op = "attach"
    /\ call.res.kind = "Ok"
    /\ call.arg[2] = AttachOptionsDefault
    /\ ~process[call.arg[1]].exitkill
    /\ process[call.arg[1]].state = "traced"
    /\ \E q \in Pids : process[q].exitkill

(* ---------------------------- memory reads ---------------------------- *)

\* Pages of the debuggee's memory.
MaxPages == 3

\* Requests in one batch.
MaxBatch == 2

\* The page size, scaled down to one machine word.
PAGE_SIZE == 8

MemAddrs == 0 .. (MaxPages * PAGE_SIZE - 1)

PageOf(a) == a \div PAGE_SIZE

\* The debuggee's memory map snapshot: a page is fast-path eligible when it
\* is readable, else protected.
Readable(p, a) == PageOf(a) \in p.readable

Min(a, b) == IF a <= b THEN a ELSE b

RECURSIVE RunLength(_, _, _)
\* The bytes from `addr` on, at most `len`, that lie in pages of one kind.
RunLength(p, addr, len) ==
    IF len <= 1 THEN len
    ELSE IF Readable(p, addr + 1) = Readable(p, addr)
         THEN 1 + RunLength(p, addr + 1, len - 1)
         ELSE 1

RECURSIVE Runs(_, _, _)
\* A region split by page and kind of page, contiguous fast-path bytes coalesced.
Runs(p, addr, len) ==
    IF len = 0 THEN <<>>
    ELSE LET n == RunLength(p, addr, len)
         IN  <<[addr |-> addr, len |-> n, fast |-> Readable(p, addr)]>>
                \o Runs(p, addr + n, len - n)

\* The fast path, one vectored read: it fails on a page that is not readable.
process_vm_readv(t, addr, len, f) ==
    IF Failing(t, f) \/ \E a \in addr .. (addr + len - 1) : ~Readable(t.pages, a)
    THEN [t |-> Logged(t, [req |-> "READV", ok |-> FALSE, addr |-> addr, len |-> len]),
          ok |-> FALSE, val |-> <<>>]
    ELSE [t |-> Logged(t, [req |-> "READV", ok |-> TRUE, addr |-> addr, len |-> len]),
          ok |-> TRUE, val |-> [k \in 1 .. len |-> t.pages.bytes[addr + k - 1]]]

\* The fallback, one word peeked at a word-aligned address.
peek_word(t, addr, f) ==
    IF Failing(t, f)
    THEN [t |-> Logged(t, [req |-> "PEEKDATA", ok |-> FALSE, addr |-> addr]),
          ok |-> FALSE, val |-> <<>>]
    ELSE [t |-> Logged(t, [req |-> "PEEKDATA", ok |-> TRUE, addr |-> addr]),
          ok |-> TRUE, val |-> WordAt(t.pages.bytes, addr)]

\* Mutant: the bytes are taken from the start of the peeked word.
word_slice_head(word, off, n) == SubSeq(word, 1, n)

\* The `n` bytes of a peeked word from byte `off` on.
word_slice(word, off, n) == SubSeq(word, off + 1, off + n)

RECURSIVE read_words(_, _, _, _)
\* The fallback for a run of protected bytes: each word that holds some of
\* them is peeked and the relevant bytes are taken.
read_words(t, addr, len, f) ==
    IF len = 0 THEN [t |-> t, ok |-> TRUE, val |-> <<>>]
    ELSE LET off == addr % WORD_BYTES
             n == Min(len, WORD_BYTES - off)
             w == peek_word(t, addr - off, f)
         IN  IF ~w.ok THEN [t |-> w.t, ok |-> FALSE, val |-> <<>>]
             ELSE LET rest == read_words(w.t, addr + n, len - n, f)
                  IN  [t |-> rest.t, ok |-> rest.ok,
                       val |-> word_slice(w.val, off, n) \o rest.val]

RECURSIVE read_runs(_, _, _)
\* Each run with its transport, the pieces reassembled in order.
read_runs(t, runs, f) ==
    IF runs = <<>> THEN [t |-> t, ok |-> TRUE, val |-> <<>>]
    ELSE LET r == Head(runs)
             piece == IF r.fast THEN process_vm_readv(t, r.addr, r.len, f)
                      ELSE read_words(t, r.addr, r.len, f)
         IN  IF ~piece.ok THEN [t |-> piece.t, ok |-> FALSE, val |-> <<>>]
             ELSE LET rest == read_runs(piece.t, Tail(runs), f)
                  IN  [t |-> rest.t, ok |-> rest.ok, val |-> piece.val \o rest.val]

RECURSIVE read_batch(_, _, _)
\* The regions of a batch in the order they were added.
read_batch(t, batch, f) ==
    IF batch = <<>> THEN [t |-> t, ok |-> TRUE, val |-> <<>>]
    ELSE LET r == Head(batch)
             one == read_runs(t, Runs(t.pages, r.addr, r.len), f)
         IN  IF ~one.ok THEN [t |-> one.t, ok |-> FALSE, val |-> <<>>]
             ELSE LET rest == read_batch(one.t, Tail(batch), f)
                  IN  [t |-> rest.t, ok |-> rest.ok, val |-> <<one.val>> \o rest.val]

\* ReadMemory::apply: every destination is filled, or none is.
apply(t, batch, f) ==
    LET r == read_batch(t, batch, f)
    IN  IF r.ok
        THEN [t |-> r.t, res |-> Ok(<<>>),
              batch |-> [i \in 1 .. Len(batch) |-> [batch[i] EXCEPT !.dst = r.val[i]]]]
        ELSE [t |-> r.t, res |-> Err(SysError), batch |-> batch]

\* ReadMemory::read of a value of `size` bytes and ReadMemory::read_slice
\* of `len` bytes: the destination starts zeroed.
ReadOp(kind, addr, len) ==
    [addr |-> addr, kind |-> kind, len |-> len, dst |-> [k \in 1 .. len |-> 0]]

\* What callers read: single values (a u8, a usize) and slices; one slice
\* starts before a page boundary, covers the second page and ends in the third.
ValueReads == {<<7, 1>>, <<13, WORD_BYTES>>}

SliceReads == {<<6, 2>>, <<6, PAGE_SIZE + 3>>, <<0, 3 * PAGE_SIZE>>}

MemoryInit ==
    /\ pages \in { [bytes |-> [a \in MemAddrs |-> 10 + a], readable |-> r] :
                     r \in SUBSET (0 .. (MaxPages - 1)) }
    /\ requests = <<>>
    /\ scenario = Faulty
    /\ call = NoCall
    /\ nfail = 0
    /\ hardware_breakpoints = <<>> /\ dr = <<>> /\ dr6 = {} /\ dr7 = {}
    /\ regs = <<>> /\ text = <<>>
    /\ process = <<>>
    /\ task = <<>>
    /\ maps = <<>>
    /\ symbol = <<>> /\ demangled_name = <<>> /\ demangles = <<>>

\* The batch under construction: apply consumes the builder, so the next
\* request starts a new one.
Batch == IF call.op = "apply" THEN <<>> ELSE requests

Added(op) ==
    /\ Len(Batch) < MaxBatch
    /\ requests' = Append(Batch, op)
    /\ call' = [op |-> op.kind, arg |-> <<op.addr, op.len>>, res |-> Ok(<<>>),
                log |-> <<>>, pre |-> <<>>]
    /\ UNCHANGED <<pages, nfail, hardware_breakpoints, dr, dr6, dr7, scenario>>
    /\ UNCHANGED <<regs, text, process, task, maps, symbol, demangled_name, demangles>>

Read == \E r \in ValueReads : Added(ReadOp("read", r[1], r[2]))

ReadSlice == \E r \in SliceReads : Added(ReadOp("read_slice", r[1], r[2]))

Apply ==
    /\ call.op # "apply"
    /\ \E f \in FailPoints(Len(apply([pages |-> pages, log |-> <<>>], requests, 0).t.log)) :
        LET out == apply([pages |-> pages, log |-> <<>>], requests, f)
        IN  /\ requests' = out.batch
            /\ call' = [op |-> "apply", arg |-> <<>>, res |-> out.res, log |-> out.t.log,
                        pre |-> [requests |-> requests]]
            /\ nfail' = IF RequestFailed(out.t.log) THEN nfail + 1 ELSE nfail
    /\ UNCHANGED <<pages, hardware_breakpoints, dr, dr6, dr7, scenario>>
    /\ UNCHANGED <<regs, text, process, task, maps, symbol, demangled_name, demangles>>

MemorySpec == MemoryInit /\ [][Read \/ ReadSlice \/ Apply]_vars

\* The debuggee's bytes at a region.
MemoryAt(addr, len) == [k \in 1 .. len |-> pages.bytes[addr + k - 1]]

RECURSIVE PerPage(_, _)
\* A region read page by page, each page's part on its own with the
\* strategy of that page.
PerPage(addr, len) ==
    IF len = 0 THEN <<>>
    ELSE LET n == Min(len, (PageOf(addr) + 1) * PAGE_SIZE - addr)
             part == IF Readable(pages, addr)
                     THEN process_vm_readv([pages |-> pages, log |-> <<>>], addr, n, 0)
                     ELSE read_words([pages |-> pages, log |-> <<>>], addr, n, 0)
         IN  part.val \o PerPage(addr + n, len - n)

\* C15: after a successful apply every destination buffer of the batch
\* holds the debuggee's bytes of its region, the same bytes as reading each
\* page of the region separately with that page's strategy, whatever pages
\* are read-protected.
C15_ReadAcrossPages ==
    (call.op = "apply" /\ call.res.kind = "Ok") =>
        /\ Len(requests) = Len(call.pre.requests)
        /\ \A i \in 1 .. Len(requests) :
            /\ requests[i].addr = call.pre.requests[i].addr
            /\ requests[i].len = call.pre.requests[i].len
            /\ requests[i].dst = MemoryAt(requests[i].addr, requests[i].len)
            /\ requests[i].dst = PerPage(requests[i].addr, requests[i].len)

\* A slice from the end of a readable page over a protected page into a
\* readable third page was read, in a batch with a value from the protected
\* page, by a vectored read, a peek and a vectored read.
C15_Witness ==
    /\ call.op = "apply"
    /\ call.res.kind = "Ok"
    /\ pages.readable = {0, 2}
    /\ Len(requests) = 2
    /\ requests[1].addr = 6 /\ requests[1].len = PAGE_SIZE + 3
    /\ requests[1].dst[1] = 16 /\ requests[1].dst[PAGE_SIZE + 3] = 26
    /\ requests[2].kind = "read" /\ requests[2].addr = 13
    /\ call.log[1].req = "READV" /\ call.log[2].req = "PEEKDATA" /\ call.log[3].req = "READV"

(* ------------------------------ threads ------------------------------- *)

\* Threads in one snapshot.
MaxThreads == 2

Snapshot == 1 .. MaxThreads

\* The TID the kernel gave the i-th thread of the snapshot.
Tid(i) == 100 + i

\* procfs::ProcError
ProcErrors == {"PermissionDenied", "NotFound", "Incomplete", "Io", "Other", "InternalError"}

\* Task::stat: what reading the task's stat can give, an error or the stat,
\* of which only comm is kept. A thread that is gone
\* has no stat; one that lives has one, unless its page is not complete yet
\* or the read fails.
Stats(t) ==
    IF t.alive
    THEN {Ok(<<t.comm>>)} \cup {Err(<<e>>) : e \in ProcErrors \ {"NotFound"}}
    ELSE {Err(<<"NotFound">>), Err(<<"Incomplete">>)}

\* Mutant: only NotFound is skipped.
skipped_not_found(err) == err = "NotFound"

\* Err(ProcError::NotFound(_)) | Err(ProcError::Incomplete(_))
skipped(err) == err \in {"NotFound", "Incomplete"}

\* LinuxThread::name, on the outcome of self.task.stat()
name(stat) ==
    IF stat.kind = "Ok" THEN Ok(Some(stat.val[1]))
    ELSE IF skipped(stat.val[1]) THEN Ok(None)
    ELSE Err(stat.val)

\* LinuxThread::thread_id
thread_id(t) == t.tid

Comms == {"main", "worker"}

\* LinuxTarget::threads has returned a snapshot of living threads.
ThreadInit ==
    /\ task \in { [i \in Snapshot |-> [tid |-> Tid(i), comm |-> c[i], alive |-> TRUE]] :
                    c \in [Snapshot -> Comms] }
    /\ scenario = Faulty
    /\ call = NoCall
    /\ nfail = 0
    /\ hardware_breakpoints = <<>> /\ dr = <<>> /\ dr6 = {} /\ dr7 = {}
    /\ regs = <<>> /\ text = <<>>
    /\ process = <<>>
    /\ maps = <<>>
    /\ symbol = <<>> /\ demangled_name = <<>> /\ demangles = <<>>
    /\ pages = <<>> /\ requests = <<>>

Name ==
    /\ \E i \in Snapshot : \E stat \in Stats(task[i]) :
        call' = [op |-> "name", arg |-> <<i, stat>>, res |-> name(stat), log |-> <<>>,
                 pre |-> <<>>]
    /\ UNCHANGED task
    /\ UNCHANGED <<nfail, hardware_breakpoints, dr, dr6, dr7, scenario>>
    /\ UNCHANGED <<regs, text, process, maps, symbol, demangled_name, demangles, pages, requests>>

ThreadId ==
    /\ \E i \in Snapshot :
        call' = [op |-> "thread_id", arg |-> <<i>>, res |-> Ok(<<thread_id(task[i])>>),
                 log |-> <<>>, pre |-> <<>>]
    /\ UNCHANGED task
    /\ UNCHANGED <<nfail, hardware_breakpoints, dr, dr6, dr7, scenario>>
    /\ UNCHANGED <<regs, text, process, maps, symbol, demangled_name, demangles, pages, requests>>

\* A thread of the debuggee exits; its task directory disappears.
ThreadExit ==
    /\ \E i \in Snapshot :
        /\ task[i].alive
        /\ task' = [task EXCEPT ![i].alive = FALSE]
        /\ call' = [op |-> "exit", arg |-> <<i>>, res |-> Ok(<<>>), log |-> <<>>, pre |-> <<>>]
    /\ UNCHANGED <<nfail, hardware_breakpoints, dr, dr6, dr7, scenario>>
    /\ UNCHANGED <<regs, text, process, maps, symbol, demangled_name, demangles, pages, requests>>

ThreadSpec == ThreadInit /\ [][Name \/ ThreadId \/ ThreadExit]_vars

\* C16: name returns Ok(Some(comm)) when the stat can be read, Ok(None)
\* when reading it fails with NotFound or Incomplete, and the error for
\* every other failure; thread_id returns the TID of the snapshot whether
\* or not the thread still lives.
C16_ThreadName ==
    /\ call.op = "name" =>
        LET i == call.arg[1]
            stat == call.arg[2]
        IN  /\ stat.kind = "Ok" => IsOk(call.res, <<task[i].comm>>)
            /\ (stat.kind = "Err" /\ stat.val[1] \in {"NotFound", "Incomplete"}) =>
                 IsOk(call.res, <<>>)
            /\ (stat.kind = "Err" /\ stat.val[1] \notin {"NotFound", "Incomplete"}) =>
                 IsErr(call.res, stat.val)
            /\ ~task[i].alive => IsOk(call.res, <<>>)
    /\ call.op = "thread_id" => IsOk(call.res, <<Tid(call.arg[1])>>)
    /\ \A i \in Snapshot : task[i].tid = Tid(i)

\* The name of a thread that has exited was asked for, the stat was
\* incomplete, and no name and no error came back.
C16_Witness ==
    /\ call.op = "name"
    /\ ~task[call.arg[1]].alive
    /\ IsErr(call.arg[2], <<"Incomplete">>)
    /\ IsOk(call.res, <<>>)

(* ---------------------------- memory maps ----------------------------- *)

\* Entries of the debuggee's memory map.
MaxMaps == 2

\* Mutant: a flag is set when its character occurs anywhere in the string.
perm_anywhere(perms, pos, ch) == \E i \in 1 .. Len(perms) : perms[i] = ch

\* perms.next() == Some(ch), for the pos-th call of next on map.perms.chars()
perm(perms, pos, ch) == pos <= Len(perms) /\ perms[pos] = ch

\* match map.pathname { MMapPath::Path(path) => Some((path, map.offset)), _ => None }
backing_file(map) ==
    IF map.pathname.kind = "Path" THEN Some(<<map.pathname.path, map.offset>>) ELSE None

\* The closure of memory_maps: one super::MemoryMap of one entry.
MemoryMap(map) ==
    [address |-> map.address,
     backing_file |-> backing_file(map),
     is_readable |-> perm(map.perms, 1, "r"),
     is_writable |-> perm(map.perms, 2, "w"),
     is_executable |-> perm(map.perms, 3, "x"),
     is_private |-> perm(map.perms, 4, "p")]

Process_new(fs, f) ==
    IF Failing(fs, f)
    THEN [fs |-> Logged(fs, [req |-> "Process::new", ok |-> FALSE]), ok |-> FALSE]
    ELSE [fs |-> Logged(fs, [req |-> "Process::new", ok |-> TRUE]), ok |-> TRUE]

Process_maps(fs, f) ==
    IF Failing(fs, f)
    THEN [fs |-> Logged(fs, [req |-> "maps", ok |-> FALSE]), ok |-> FALSE, val |-> <<>>]
    ELSE [fs |-> Logged(fs, [req |-> "maps", ok |-> TRUE]), ok |-> TRUE, val |-> fs.maps]

\* LinuxTarget::memory_maps
memory_maps(fs, f) ==
    LET p == Process_new(fs, f) IN
    IF ~p.ok THEN [fs |-> p.fs, res |-> Err(SysError)] ELSE
    LET m == Process_maps(p.fs, f) IN
    IF ~m.ok THEN [fs |-> m.fs, res |-> Err(SysError)] ELSE
    [fs |-> m.fs, res |-> Ok(<<[i \in 1 .. Len(m.val) |-> MemoryMap(m.val[i])]>>)]

\* Permission strings of map entries: the kernel's four characters, and
\* strings with the characters out of place or missing.
PermStrings ==
    { <<"r", "w", "x", "p">>, <<"r", "-", "x", "s">>, <<"-", "-", "-", "p">>,
      <<"w", "r", "p", "x">>, <<"r", "w">>, <<>> }

\* procfs::process::MMapPath, with the path of the Path variant.
Pathnames ==
    { [kind |-> "Path", path |-> "/lib/a"], [kind |-> "Heap", path |-> ""],
      [kind |-> "Anonymous", path |-> ""] }

\* The i-th entry: the kernel lists them by ascending address.
MapEntry(i, perms, pathname) ==
    [address |-> <<16 * i, 16 * i + 8>>, perms |-> perms, pathname |-> pathname,
     offset |-> 4 * i]

MapSources ==
    UNION { { [i \in 1 .. n |-> MapEntry(i, ps[i], pn[i])] :
                ps \in [1 .. n -> PermStrings], pn \in [1 .. n -> Pathnames] } :
            n \in 0 .. MaxMaps }

MapsInit ==
    /\ maps \in MapSources
    /\ scenario = Faulty
    /\ call = NoCall
    /\ nfail = 0
    /\ hardware_breakpoints = <<>> /\ dr = <<>> /\ dr6 = {} /\ dr7 = {}
    /\ regs = <<>> /\ text = <<>>
    /\ process = <<>>
    /\ task = <<>>
    /\ symbol = <<>> /\ demangled_name = <<>> /\ demangles = <<>>
    /\ pages = <<>> /\ requests = <<>>

MemoryMaps ==
    /\ \E f \in FailPoints(Len(memory_maps([maps |-> maps, log |-> <<>>], 0).fs.log)) :
        LET out == memory_maps([maps |-> maps, log |-> <<>>], f)
        IN  /\ call' = [op |-> "memory_maps", arg |-> <<>>, res |-> out.res,
                        log |-> out.fs.log, pre |-> <<>>]
            /\ nfail' = IF RequestFailed(out.fs.log) THEN nfail + 1 ELSE nfail
    /\ UNCHANGED <<maps, hardware_breakpoints, dr, dr6, dr7, scenario>>
    /\ UNCHANGED <<regs, text, process, task, symbol, demangled_name, demangles, pages, requests>>

MapsSpec == MapsInit /\ [][MemoryMaps]_vars

\* The character at a position of a permission string, "" when it is missing.
CharAt(perms, pos) == IF pos <= Len(perms) THEN perms[pos] ELSE ""

\* C17: memory_maps returns one MemoryMap per entry of the map source, in
\* its order; is_readable, is_writable, is_executable and is_private are
\* true exactly when the 1st, 2nd, 3rd and 4th character is 'r', 'w', 'x'
\* and 'p', any other or missing character gives false and no error; and
\* backing_file is present exactly for entries whose pathname is a path.
C17_MemoryMaps ==
    call.op = "memory_maps" =>
        /\ call.res.kind = "Err" <=> RequestFailed(call.log)
        /\ call.res.kind = "Ok" =>
            LET out == call.res.val[1]
            IN  /\ Len(out) = Len(maps)
                /\ \A i \in 1 .. Len(maps) :
                    /\ out[i].address = maps[i].address
                    /\ out[i].is_readable <=> CharAt(maps[i].perms, 1) = "r"
                    /\ out[i].is_writable <=> CharAt(maps[i].perms, 2) = "w"
                    /\ out[i].is_executable <=> CharAt(maps[i].perms, 3) = "x"
                    /\ out[i].is_private <=> CharAt(maps[i].perms, 4) = "p"
                    /\ out[i].backing_file # None <=> maps[i].pathname.kind = "Path"
                    /\ maps[i].pathname.kind = "Path" =>
                         out[i].backing_file = <<<<maps[i].pathname.path, maps[i].offset>>>>

\* Two entries were returned in order: the first with the characters out of
\* place and no flag, the second a shared mapping of a file.
C17_Witness ==
    /\ call.op = "memory_maps"
    /\ call.res.kind = "Ok"
    /\ Len(maps) = 2
    /\ maps[1].perms = <<"w", "r", "p", "x">>
    /\ maps[2].perms = <<"r", "-", "x", "s">> /\ maps[2].pathname.kind = "Path"
    /\ LET out == call.res.val[1]
       IN  /\ ~out[1].is_readable /\ ~out[1].is_writable
           /\ ~out[1].is_executable /\ ~out[1].is_private
           /\ out[2].is_readable /\ ~out[2].is_private
           /\ out[2].address = <<32, 40>>
           /\ out[2].backing_file # None

(* ------------------------------ symbols ------------------------------- *)

\* Symbol values in a run.
MaxSymbols == 2

\* Computations of one symbol's name after which the run ends.
MaxDemangles == 2

Symbols == 1 .. MaxSymbols

\* object::Symbol::name of the wrapped symbols: none, a mangled name, a plain one.
ObjectNames == {None, Some("_ZN3foo3barE"), Some("main")}

\* rustc_demangle::demangle: the name with its demangled form.
demangle(mangled) ==
    [original |-> mangled,
     demangled |-> IF mangled = "_ZN3foo3barE" THEN "foo::bar" ELSE mangled]

\* Demangle::as_str: the underlying string that is being demangled.
as_str(d) == d.original

\* A Symbol value: the wrapped symbol's name, the cache cell and the
\* computations made for it.
SymbolValue(n, cell, count) == [name |-> n, demangled_name |-> cell, demangles |-> count]

\* impl From<object::Symbol> for Symbol
From(n) == SymbolValue(n, None, 0)

\* Mutant: the computed name is returned but the cell is left as it was.
cell_set_not(cell, value) == cell

\* Cell::set
cell_set(cell, value) == value

\* Symbol::name
symbol_name(sym) ==
    IF sym.name = None THEN [sym |-> sym, res |-> None]
    ELSE LET mangled_name == sym.name[1] IN
         IF sym.demangled_name # None
         THEN [sym |-> sym, res |-> Some(sym.demangled_name[1])]
         ELSE LET demangled == as_str(demangle(mangled_name))
              IN  [sym |-> [sym EXCEPT !.demangled_name = cell_set(@, Some(demangled)),
                                       !.demangles = @ + 1],
                   res |-> Some(demangled)]

\* Symbol::orig_name
orig_name(sym) == sym.name

\* #[derive(Clone)]: the copy has the cell's content and no computation of its own.
clone(sym) == [sym EXCEPT !.demangles = 0]

SymbolAt(i) == SymbolValue(symbol[i], demangled_name[i], demangles[i])

SymbolInit ==
    /\ symbol \in [Symbols -> ObjectNames]
    /\ demangled_name = [i \in Symbols |-> From(symbol[i]).demangled_name]
    /\ demangles = [i \in Symbols |-> From(symbol[i]).demangles]
    /\ scenario = Faulty
    /\ call = NoCall
    /\ nfail = 0
    /\ hardware_breakpoints = <<>> /\ dr = <<>> /\ dr6 = {} /\ dr7 = {}
    /\ regs = <<>> /\ text = <<>>
    /\ process = <<>>
    /\ task = <<>>
    /\ maps = <<>>
    /\ pages = <<>> /\ requests = <<>>

SymbolReturn(op, i, sym, res) ==
    /\ symbol' = [symbol EXCEPT ![i] = sym.name]
    /\ demangled_name' = [demangled_name EXCEPT ![i] = sym.demangled_name]
    /\ demangles' = [demangles EXCEPT ![i] = sym.demangles]
    /\ call' = [op |-> op, arg |-> <<i>>, res |-> Ok(res), log |-> <<>>,
                pre |-> [demangled_name |-> demangled_name, demangles |-> demangles]]
    /\ UNCHANGED <<nfail, hardware_breakpoints, dr, dr6, dr7, scenario>>
    /\ UNCHANGED <<regs, text, process, task, maps, pages, requests>>

SymbolName ==
    \E i \in Symbols :
        /\ demangles[i] < MaxDemangles
        /\ SymbolReturn("name", i, symbol_name(SymbolAt(i)).sym, symbol_name(SymbolAt(i)).res)

SymbolOrigName ==
    \E i \in Symbols : SymbolReturn("orig_name", i, SymbolAt(i), orig_name(SymbolAt(i)))

\* symbol j is replaced by a clone of symbol i
SymbolClone ==
    \E i \in Symbols :
        \E j \in Symbols \ {i} : SymbolReturn("clone", j, clone(SymbolAt(i)), None)

SymbolSpec == SymbolInit /\ [][SymbolName \/ SymbolOrigName \/ SymbolClone]_vars

\* C18: name computes at most once. On a symbol with a name the first call
\* stores the computed name in the cell and returns it; a later call
\* returns the stored value, computes nothing and leaves the cell as it
\* is; so every call returns the same value. On a symbol without a name
\* every call returns None and the cell stays empty.
C18_NameCachedOnce ==
    /\ \A i \in Symbols :
        /\ demangles[i] <= 1
        /\ symbol[i] = None => demangled_name[i] = None /\ demangles[i] = 0
        /\ demangled_name[i] # None => demangled_name[i] = Some(symbol[i][1])
    /\ call.op = "name" =>
        LET i == call.arg[1]
            cell == call.pre.demangled_name[i]
        IN  /\ symbol[i] = None =>
                /\ IsOk(call.res, None)
                /\ cell = None /\ demangled_name[i] = None
                /\ demangles[i] = call.pre.demangles[i]
            /\ (symbol[i] # None /\ cell = None) =>
                /\ call.res.kind = "Ok" /\ call.res.val # None
                /\ demangled_name[i] = call.res.val
                /\ demangles[i] = call.pre.demangles[i] + 1
            /\ (symbol[i] # None /\ cell # None) =>
                /\ IsOk(call.res, cell)
                /\ demangled_name[i] = cell
                /\ demangles[i] = call.pre.demangles[i]
            /\ symbol[i] # None => IsOk(call.res, Some(as_str(demangle(symbol[i][1]))))

\* A later call on a symbol with a name: the cell was full, the stored
\* value came back and the one computation stayed the only one.
C18_Witness ==
    /\ call.op = "name"
    /\ symbol[call.arg[1]] # None
    /\ call.pre.demangled_name[call.arg[1]] # None
    /\ call.pre.demangles[call.arg[1]] = 1
    /\ demangles[call.arg[1]] = 1
    /\ IsOk(call.res, call.pre.demangled_name[call.arg[1]])

(* ------------------ slot table and debug registers -------------------- *)

\* Slot i is occupied exactly when DR7 has its local enable bit, and then
\* DR[i] holds the address of its breakpoint.
Agreement ==
    \A i \in Slots :
        /\ hardware_breakpoints[i] # None <=> 2 * i \in dr7
        /\ hardware_breakpoints[i] # None => dr[i] = hardware_breakpoints[i][1].addr

InvalidState == call.res.kind = "Panic" /\ call.res.val = <<"Invalid debug register state">>

\* C19: in a run that starts with all local enable bits of DR7 clear and
\* in which no tracer request has failed, after any sequence of set, clear,
\* clear_all and is_triggered slot i is occupied if and only if DR7 bit 2i
\* is set, DR[i] of an occupied slot is its breakpoint's address, and set
\* has not panicked with 'Invalid debug register state'.
C19_TableAgreesWithRegisters ==
    (nfail = 0 /\ \A i \in Slots : 2 * i \notin scenario.dr7) =>
        /\ Agreement
        /\ ~InvalidState

\* No request has failed; slot 0 was cleared and set again while slot 1
\* stayed occupied, in a debuggee whose DR7 began with other bits set.
C19_Witness ==
    /\ nfail = 0
    /\ scenario.dr7 # {}
    /\ call.op = "set"
    /\ IsOk(call.res, <<0>>)
    /\ call.pre.hardware_breakpoints[1] # None
    /\ hardware_breakpoints[0] # hardware_breakpoints[1]
    /\ dr[0] # dr[1]

\* The DR7 write of the last set went through and its DR6 write failed.
Dr6WriteFailed ==
    /\ call.op = "set"
    /\ Len(call.log) = 4
    /\ IsPoke(call.log[3], 7, call.log[3].data) /\ call.log[3].ok
    /\ IsPoke(call.log[4], 6, {}) /\ ~call.log[4].ok

\* A set that returned an error kept the table and the writes it had made.
NoRollback ==
    (call.op = "set" /\ call.res.kind = "Err") =>
        /\ TableUnchanged
        /\ \A k \in 1 .. Len(call.log) :
            (call.log[k].req = "POKEUSER" /\ call.log[k].ok) =>
                ReadReg(Current, call.log[k].reg) = call.log[k].data

\* C20 as claimed: a set that returns an error leaves the table unchanged
\* and keeps the register writes it made; after a set whose DR7 write went
\* through and whose DR6 write failed, DR7 has the enable bit of the slot,
\* the slot is empty, and the next set panics with 'Invalid debug register
\* state', whatever happens to its own requests.
C20_FailedSetThenPanicAlways ==
    /\ NoRollback
    /\ Dr6WriteFailed =>
        LET i == LowestEmpty(hardware_breakpoints)
        IN  /\ IsErr(call.res, SysError)
            /\ 2 * i \in dr7
            /\ hardware_breakpoints[i] = None
            /\ \A bp \in AnyBreakpoint : \A f \in 0 .. 1 :
                 set_hardware_breakpoint(Current, bp, f).res
                    = Panic("Invalid debug register state")

\* C20 amended: as above, but the next set panics when its read of DR7
\* succeeds; when that read fails the next set returns the error and
\* changes nothing.
C20_FailedSetThenPanic ==
    /\ NoRollback
    /\ Dr6WriteFailed =>
        LET i == LowestEmpty(hardware_breakpoints)
        IN  /\ IsErr(call.res, SysError)
            /\ 2 * i \in dr7
            /\ hardware_breakpoints[i] = None
            /\ \A bp \in AnyBreakpoint :
                /\ set_hardware_breakpoint(Current, bp, 0).res
                     = Panic("Invalid debug register state")
                /\ IsErr(set_hardware_breakpoint(Current, bp, 1).res, SysError)
                /\ set_hardware_breakpoint(Current, bp, 1).m.dr7 = dr7
                /\ set_hardware_breakpoint(Current, bp, 1).m.hardware_breakpoints
                     = hardware_breakpoints

\* The DR6 write of a set failed, and the DR7 it had written differs from
\* the DR7 before the call.
C20_Witness ==
    /\ Dr6WriteFailed
    /\ call.res.kind = "Err"
    /\ dr7 # call.pre.dr7
    /\ dr7 = call.log[3].data
    /\ hardware_breakpoints[0] = None /\ 0 \in dr7

(* ------------------------- pending status bits ------------------------ *)

\* C21: a set_hardware_breakpoint that succeeds has written 0 to the whole
\* of DR6 as its last request, not only the status bit of the slot it
\* programs: the status bit of every occupied slot j that was set before
\* the call is gone, and the is_hardware_breakpoint_triggered that follows
\* does not return Some(j), whichever of its requests fails.
C21_SetDiscardsPending ==
    (call.op = "set" /\ call.res.kind = "Ok") =>
        /\ IsPoke(call.log[Len(call.log)], 6, {}) /\ call.log[Len(call.log)].ok
        /\ dr6 = {}
        /\ \A j \in Pending :
            /\ j # call.res.val[1]
            /\ hardware_breakpoints[j] # None
            /\ \A f \in 0 .. 2 :
                 ~IsOk(is_hardware_breakpoint_triggered(Current, f).res, Some(j))
        /\ IsOk(is_hardware_breakpoint_triggered(Current, 0).res, None)

\* A set succeeded into a slot while two occupied slots had their status
\* bit set, one of them below and one above the slot programmed.
C21_Witness ==
    /\ call.op = "set"
    /\ IsOk(call.res, <<1>>)
    /\ Pending = {0, 2}
    /\ dr6 = {}

\* The occupied slots of the table whose status bit is set in DR6.
PendingNow == {i \in Slots : i \in dr6 /\ hardware_breakpoints[i] # None}

RECURSIVE Ascending(_)
\* The slots of S in increasing order, each reported as Some, then None.
Ascending(S) ==
    IF S = {} THEN <<Ok(None)>>
    ELSE LET i == CHOOSE i \in S : \A j \in S : i <= j
         IN <<Ok(Some(i))>> \o Ascending(S \ {i})

RECURSIVE Drain(_, _)
\* The results of Len(fs) consecutive calls of is_hardware_breakpoint_triggered
\* from machine m, with nothing else in between; call n fails at its request
\* fs[n], at none when that is 0.
Drain(m, fs) ==
    IF fs = <<>> THEN <<>>
    ELSE LET out == is_hardware_breakpoint_triggered(m, Head(fs))
         IN <<out.res>> \o Drain(Machine(out.m.hardware_breakpoints, out.m.dr,
                                          out.m.dr6, out.m.dr7), Tail(fs))

\* The requests that may fail in n consecutive calls made now.
FailSeqs(n) ==
    IF nfail < scenario.faults
    THEN {fs \in [1 .. n -> 0 .. 2] :
            Cardinality({x \in 1 .. n : fs[x] # 0}) <= scenario.faults - nfail}
    ELSE {[x \in 1 .. n |-> 0]}

NoFailure(n) == [x \in 1 .. n |-> 0]

\* Two is_hardware_breakpoint_triggered in a row, nothing in between: the
\* second reports a higher slot than the first, and None stays None.
InOrder ==
    (call.op = "is_triggered" /\ call'.op = "is_triggered" /\ call'.res.kind = "Ok") =>
        /\ \A i \in Slots : IsOk(call.res, Some(i)) =>
              \A j \in Slots : IsOk(call'.res, Some(j)) => j > i
        /\ IsOk(call.res, None) => IsOk(call'.res, None)

\* C22 as claimed: with k occupied slots whose DR6 status bit is set, and
\* DR6 changed by nothing else in between, k consecutive calls of
\* is_hardware_breakpoint_triggered return those k slots in strictly
\* increasing order, each once, and the call after them returns None,
\* whatever happens to the requests of those calls.
C22_DrainedInOrderAlways ==
    /\ [](\A fs \in FailSeqs(Cardinality(PendingNow) + 1) :
            Drain(Current, fs) = Ascending(PendingNow))
    /\ [][call'.op = "is_triggered" =>
            /\ call'.res = Drain(Current, NoFailure(1))[1]
            /\ InOrder]_vars

\* C22 amended: as above for calls in which no tracer request fails; a
\* call in which the read or the write of DR6 fails returns that error and
\* leaves DR6 and the table as they were, so that the calls after it
\* report the same slots in the same order.
C22_DrainedInOrder ==
    /\ [](/\ Drain(Current, NoFailure(Cardinality(PendingNow) + 1)) = Ascending(PendingNow)
          /\ \A f \in 1 .. 2 :
               LET out == is_hardware_breakpoint_triggered(Current, f)
               IN  RequestFailed(out.m.log) =>
                     /\ IsErr(out.res, SysError)
                     /\ out.m.dr6 = dr6
                     /\ out.m.hardware_breakpoints = hardware_breakpoints)
    /\ [][call'.op = "is_triggered" =>
            /\ ~RequestFailed(call'.log) => call'.res = Drain(Current, NoFailure(1))[1]
            /\ RequestFailed(call'.log) => IsErr(call'.res, SysError) /\ dr6' = dr6
            /\ InOrder]_vars

\* The first of two pending occupied slots has just been reported, the
\* second is still pending: two more calls report it and then None.
C22_Witness ==
    /\ call.op = "is_triggered"
    /\ IsOk(call.res, Some(1))
    /\ Pending = {1, 3}
    /\ PendingNow = {3}
    /\ Drain(Current, NoFailure(2)) = <<Ok(Some(3)), Ok(None)>>

(* ------------------------- failures and panics ------------------------ *)

\* The slots a clear_all that failed had cleared before: each clear that
\* went through made four requests.
ClearedBefore ==
    LET was  == Occupied(call.pre.hardware_breakpoints)
        done == (Len(call.log) - 1) \div 4
    IN  {i \in was : Cardinality({j \in was : j < i}) < done}

\* C23: a clear_all_hardware_breakpoints returns an error only when a
\* request of one of its clears failed, and then it has stopped at that
\* request and returns its error: the occupied slots below the failing one
\* are empty with their enable bit clear and are not restored, the failing
\* slot and the occupied slots above it hold what they held, and a
\* clear_all called again without a failure returns Ok with every slot
\* empty, making the four requests of a clear for each slot that was left.
C23_ClearAllStopsAtFailure ==
    (call.op = "clear_all" /\ call.res.kind # "Ok") =>
        LET was  == Occupied(call.pre.hardware_breakpoints)
            left == was \ ClearedBefore
            again == clear_all_hardware_breakpoints(Current, 0)
        IN  /\ IsErr(call.res, SysError)
            /\ call.log # <<>>
            /\ \A k \in 1 .. Len(call.log) : call.log[k].ok <=> k < Len(call.log)
            /\ left # {}
            /\ \A i \in ClearedBefore : hardware_breakpoints[i] = None /\ 2 * i \notin dr7
            /\ \A i \in left : hardware_breakpoints[i] = call.pre.hardware_breakpoints[i]
            /\ Occupied(hardware_breakpoints) = left
            /\ IsOk(again.res, <<>>)
            /\ Occupied(again.m.hardware_breakpoints) = {}
            /\ Len(again.m.log) = 4 * Cardinality(left)

\* Of three occupied slots the clear of the second failed after its write
\* of DR7: the first is empty, the second and the third are occupied.
C23_Witness ==
    /\ call.op = "clear_all"
    /\ IsErr(call.res, SysError)
    /\ Occupied(call.pre.hardware_breakpoints) = {0, 1, 3}
    /\ Len(call.log) = 8
    /\ Occupied(hardware_breakpoints) = {1, 3}
    /\ dr7 # call.pre.dr7

\* C24: clear_hardware_breakpoint(index) with index at or past
\* SUPPORTED_HARDWARE_BREAKPOINTS panics on the index into the slot table:
\* it returns nothing, issues no tracer request and changes neither the
\* table nor a debug register, whichever request would have failed; and a
\* clear that returns DoesNotExist was given an index inside the table
\* and returns that index.
C24_ClearOutOfRange ==
    /\ (call.op = "clear" /\ call.arg[1] >= SUPPORTED_HARDWARE_BREAKPOINTS) =>
          /\ IsPanic(call.res)
          /\ call.res.val = <<"index out of bounds">>
          /\ call.log = <<>>
          /\ TableUnchanged
          /\ RegistersUnchanged
    /\ (call.op = "clear" /\ call.res.kind = "Err" /\ call.res.val[1] = "DoesNotExist") =>
          /\ call.arg[1] \in Slots
          /\ call.res.val = DoesNotExist(call.arg[1])
    /\ \A index \in SUPPORTED_HARDWARE_BREAKPOINTS .. (MaxIndex + 1) : \A f \in 0 .. 4 :
          /\ IsPanic(clear_hardware_breakpoint(Current, index, f).res)
          /\ clear_hardware_breakpoint(Current, index, f).m = Current

\* A clear with the first index past the table, while slots are occupied
\* and a status bit is pending: a panic, and nothing has changed.
C24_Witness ==
    /\ call.op = "clear"
    /\ call.arg = <<SUPPORTED_HARDWARE_BREAKPOINTS>>
    /\ IsPanic(call.res)
    /\ Occupied(hardware_breakpoints) = {0, 1}
    /\ dr6 # {}
    /\ call.log = <<>>

====
